---- MODULE Spec2Model ----
(***************************************************************************)
(* Order pricing of SOLID/code-examples/chapter-14.cpp: OrderItem,         *)
(* OrderConstants and OrderCalculator.                                     *)
(*                                                                         *)
(* Amounts are C++ doubles.  A double is modelled bit-exactly as a sign    *)
(* and a magnitude; the magnitude is a natural number counted in units of  *)
(* 2^-FracBits and written as little-endian limbs of LimbBits bits, with   *)
(* no high zero limb (so equal values are equal sequences).  Every         *)
(* arithmetic operation computes the exact result on the limbs and rounds  *)
(* it to MantBits significant bits, ties to even, as IEEE 754 binary64     *)
(* does in the default rounding mode.  Range of the model: finite values   *)
(* whose unit in the last place is at least 2^-FracBits (magnitude 0 or    *)
(* at least 2^-22); -0.0 is identified with 0.0.                           *)
(***************************************************************************)
EXTENDS Integers, Sequences, FiniteSets, TLC

LimbBits == 15
Base == 2^LimbBits
FracLimbs == 5
FracBits == FracLimbs * LimbBits
MantBits == 53

\* ------------------------------------------------------------------------
\* Natural numbers of arbitrary size (limb sequences)
\* ------------------------------------------------------------------------
Limb(a, i) == IF i <= Len(a) THEN a[i] ELSE 0

Rest(a) == IF a = <<>> THEN <<>> ELSE Tail(a)

Zeros(n) == [j \in 1..n |-> 0]

RECURSIVE BNorm(_)
BNorm(a) ==
    IF a = <<>> THEN <<>>
    ELSE IF a[Len(a)] = 0 THEN BNorm(SubSeq(a, 1, Len(a) - 1))
    ELSE a

RECURSIVE IntLimbs(_)
IntLimbs(n) == IF n = 0 THEN <<>> ELSE <<n % Base>> \o IntLimbs(n \div Base)

RECURSIVE LimbsInt(_)
LimbsInt(a) == IF a = <<>> THEN 0 ELSE a[1] + Base * LimbsInt(Tail(a))

RECURSIVE BAddC(_, _, _)
BAddC(a, b, c) ==
    IF a = <<>> /\ b = <<>> THEN (IF c = 0 THEN <<>> ELSE <<c>>)
    ELSE LET s == Limb(a, 1) + Limb(b, 1) + c
         IN  <<s % Base>> \o BAddC(Rest(a), Rest(b), s \div Base)

BAdd(a, b) == BNorm(BAddC(a, b, 0))

RECURSIVE BSubB(_, _, _)
BSubB(a, b, borrow) ==
    IF a = <<>> THEN <<>>
    ELSE LET d == a[1] - Limb(b, 1) - borrow
         IN  <<IF d < 0 THEN d + Base ELSE d>>
                 \o BSubB(Tail(a), Rest(b), IF d < 0 THEN 1 ELSE 0)

\* a - b for a >= b
BSub(a, b) == BNorm(BSubB(a, b, 0))

RECURSIVE BCmpAt(_, _, _)
BCmpAt(a, b, i) ==
    IF i = 0 THEN 0
    ELSE IF a[i] > b[i] THEN 1
    ELSE IF a[i] < b[i] THEN -1
    ELSE BCmpAt(a, b, i - 1)

\* -1, 0, 1 as a < b, a = b, a > b
BCmp(a, b) ==
    IF Len(a) > Len(b) THEN 1
    ELSE IF Len(a) < Len(b) THEN -1
    ELSE BCmpAt(a, b, Len(a))

RECURSIVE BMulSmallC(_, _, _)
BMulSmallC(a, k, c) ==
    IF a = <<>> THEN (IF c = 0 THEN <<>> ELSE <<c>>)
    ELSE LET p == a[1] * k + c
         IN  <<p % Base>> \o BMulSmallC(Tail(a), k, p \div Base)

RECURSIVE BMulR(_, _)
BMulR(a, b) ==
    IF b = <<>> THEN <<>>
    ELSE BAddC(BMulSmallC(a, b[1], 0), <<0>> \o BMulR(a, Tail(b)), 0)

BMul(a, b) == IF a = <<>> \/ b = <<>> THEN <<>> ELSE BNorm(BMulR(a, b))

\* quotient and remainder of a by k, 0 < k < Base; the high limbs first
RECURSIVE BDivSmallR(_, _)
BDivSmallR(a, k) ==
    IF a = <<>> THEN [q |-> <<>>, r |-> 0]
    ELSE LET hi  == BDivSmallR(Tail(a), k)
             cur == hi.r * Base + a[1]
         IN  [q |-> <<cur \div k>> \o hi.q, r |-> cur % k]

LimbBitLen(x) == CHOOSE n \in 1..LimbBits : 2^(n - 1) <= x /\ x < 2^n

BitLen(a) ==
    IF a = <<>> THEN 0 ELSE LimbBits * (Len(a) - 1) + LimbBitLen(a[Len(a)])

\* bit i (from 0) of a
Bit(a, i) == (Limb(a, (i \div LimbBits) + 1) \div 2^(i % LimbBits)) % 2

\* bits 0 .. s-1 of a are all zero
LowZero(a, s) ==
    /\ \A j \in 1..(s \div LimbBits) : Limb(a, j) = 0
    /\ Limb(a, (s \div LimbBits) + 1) % 2^(s % LimbBits) = 0

\* a with bits 0 .. s-1 cleared
ClearLow(a, s) ==
    [j \in 1..Len(a) |->
        IF j <= s \div LimbBits THEN 0
        ELSE IF j = (s \div LimbBits) + 1
             THEN a[j] - (a[j] % 2^(s % LimbBits))
        ELSE a[j]]

BPow2(s) ==
    [j \in 1..((s \div LimbBits) + 1) |->
        IF j = (s \div LimbBits) + 1 THEN 2^(s % LimbBits) ELSE 0]

\* a rounded to MantBits significant bits, ties to even
RoundSig(a) ==
    IF BitLen(a) <= MantBits THEN a
    ELSE LET s      == BitLen(a) - MantBits
             guard  == Bit(a, s - 1) = 1
             sticky == ~LowZero(a, s - 1)
             odd    == Bit(a, s) = 1
             trunc  == ClearLow(a, s)
         IN  IF guard /\ (sticky \/ odd)
             THEN BAdd(trunc, BPow2(s))
             ELSE BNorm(trunc)

DropLimbs(a, n) == SubSeq(a, n + 1, Len(a))

\* ------------------------------------------------------------------------
\* double
\* ------------------------------------------------------------------------
MkD(neg, mag) == [neg |-> neg /\ mag # <<>>, mag |-> mag]

DZero == MkD(FALSE, <<>>)

\* int -> double (exact for |n| < 2^53)
FromInt(n) ==
    IF n = 0 THEN DZero
    ELSE MkD(n < 0, Zeros(FracLimbs) \o IntLimbs(IF n < 0 THEN -n ELSE n))

DNeg(x) == MkD(~x.neg, x.mag)

DMul(x, y) ==
    MkD(x.neg # y.neg, DropLimbs(RoundSig(BMul(x.mag, y.mag)), FracLimbs))

DAdd(x, y) ==
    IF x.neg = y.neg THEN MkD(x.neg, RoundSig(BAdd(x.mag, y.mag)))
    ELSE IF BCmp(x.mag, y.mag) = 0 THEN DZero
    ELSE IF BCmp(x.mag, y.mag) > 0
         THEN MkD(x.neg, RoundSig(BSub(x.mag, y.mag)))
         ELSE MkD(y.neg, RoundSig(BSub(y.mag, x.mag)))

DSub(x, y) == DAdd(x, DNeg(y))

\* -1, 0, 1 as x < y, x = y, x > y
DCmp(x, y) ==
    IF x.neg /\ ~y.neg THEN -1
    ELSE IF ~x.neg /\ y.neg THEN 1
    ELSE IF x.neg THEN BCmp(y.mag, x.mag)
    ELSE BCmp(x.mag, y.mag)

DGeq(x, y) == DCmp(x, y) >= 0
DLt(x, y) == DCmp(x, y) < 0

\* x / k for a whole divisor 0 < k < Base: the exact quotient is taken with
\* FracLimbs extra limbs, a non-zero remainder is kept as a sticky low bit,
\* and the quotient is rounded to MantBits bits.
DDivInt(x, k) ==
    LET qr == BDivSmallR(Zeros(FracLimbs) \o x.mag, k)
        q  == IF qr.r = 0 THEN qr.q
              ELSE [qr.q EXCEPT ![1] = qr.q[1] - (qr.q[1] % 2) + 1]
    IN  IF x.mag = <<>> THEN DZero
        ELSE MkD(x.neg, DropLimbs(RoundSig(BNorm(q)), FracLimbs))

\* the whole number a double stands for (low limbs dropped)
DTrunc(x) == LimbsInt(DropLimbs(x.mag, FracLimbs))

\* x / y where y is a whole number 0 < y < Base
DDiv(x, y) == DDivInt(x, DTrunc(y))

\* std::round: nearest whole number, halves away from zero
DRound(x) ==
    LET whole == DropLimbs(x.mag, FracLimbs)
        up    == IF Bit(x.mag, FracBits - 1) = 1 THEN <<1>> ELSE <<>>
        r     == BAdd(whole, up)
    IN  IF r = <<>> THEN DZero ELSE MkD(x.neg, Zeros(FracLimbs) \o r)

\* the double a decimal literal with two fractional digits denotes:
\* cents/100 correctly rounded
Lit(cents) == DDivInt(FromInt(cents), 100)

\* ------------------------------------------------------------------------
\* std::string category: a sequence of characters; ::toupper per character
\* ------------------------------------------------------------------------
LowerCase == <<"a","b","c","d","e","f","g","h","i","j","k","l","m",
               "n","o","p","q","r","s","t","u","v","w","x","y","z">>
UpperCase == <<"A","B","C","D","E","F","G","H","I","J","K","L","M",
               "N","O","P","Q","R","S","T","U","V","W","X","Y","Z">>

toupper(c) ==
    IF \E i \in 1..Len(LowerCase) : LowerCase[i] = c
    THEN UpperCase[CHOOSE i \in 1..Len(LowerCase) : LowerCase[i] = c]
    ELSE c

\* toUpperCase that returns its argument
toUpperCase_Unchanged(str) == str

toUpperCase(str) == [i \in 1..Len(str) |-> toupper(str[i])]

\* ------------------------------------------------------------------------
\* OrderItem, OrderConstants
\* ------------------------------------------------------------------------
OrderItem(name, price, quantity, category) ==
    [productName |-> name, price |-> price,
     quantity |-> quantity, category |-> category]

getTotalPrice(item) == DMul(item.price, FromInt(item.quantity))

ELECTRONICS_TAX_RATE == Lit(10)
BOOK_BULK_DISCOUNT_RATE == Lit(5)
BOOK_BULK_QUANTITY_THRESHOLD == 5
FREE_SHIPPING_THRESHOLD == FromInt(100)
STANDARD_SHIPPING_COST == FromInt(10)
ELECTRONICS_CATEGORY == <<"E","L","E","C","T","R","O","N","I","C","S">>
BOOKS_CATEGORY == <<"B","O","O","K","S">>

\* ------------------------------------------------------------------------
\* OrderCalculator: the private helpers
\* ------------------------------------------------------------------------
NoError == [what |-> "", item |-> ""]

\* an invalid_argument whose message is the text `what` followed by `item`
InvalidArgument(what, item) == [what |-> what, item |-> item]

\* validateItem with the quantity test off by one (quantity 0 accepted)
validateItem_NegativeOnly(item) ==
    IF item.quantity < 0
    THEN InvalidArgument("Invalid quantity for item ", item.productName)
    ELSE IF DLt(item.price, DZero)
    THEN InvalidArgument("Invalid price for item ", item.productName)
    ELSE IF item.productName = ""
    THEN InvalidArgument("Product name cannot be empty", "")
    ELSE NoError

\* the body of the validation loop for one item: what it throws, or NoError
validateItem(item) ==
    IF item.quantity <= 0
    THEN InvalidArgument("Invalid quantity for item ", item.productName)
    ELSE IF DLt(item.price, DZero)
    THEN InvalidArgument("Invalid price for item ", item.productName)
    ELSE IF item.productName = ""
    THEN InvalidArgument("Product name cannot be empty", "")
    ELSE NoError

\* applyElectronicsTax multiplying by the rate alone
applyElectronicsTax_RateOnly(amount) == DMul(amount, ELECTRONICS_TAX_RATE)

applyElectronicsTax(amount) ==
    DMul(amount, DAdd(FromInt(1), ELECTRONICS_TAX_RATE))

\* applyBookDiscount with a strict threshold
applyBookDiscount_Above(amount, quantity) ==
    IF quantity > BOOK_BULK_QUANTITY_THRESHOLD
    THEN DMul(amount, DSub(FromInt(1), BOOK_BULK_DISCOUNT_RATE))
    ELSE amount

applyBookDiscount(amount, quantity) ==
    IF quantity >= BOOK_BULK_QUANTITY_THRESHOLD
    THEN DMul(amount, DSub(FromInt(1), BOOK_BULK_DISCOUNT_RATE))
    ELSE amount

\* calculateItemTotal without the final else: what is not BOOKS is taxed
calculateItemTotal_TaxByDefault(item) ==
    LET baseTotal     == getTotalPrice(item)
        upperCategory == toUpperCase(item.category)
    IN  IF upperCategory = BOOKS_CATEGORY
        THEN applyBookDiscount(baseTotal, item.quantity)
        ELSE applyElectronicsTax(baseTotal)

calculateItemTotal(item) ==
    LET baseTotal     == getTotalPrice(item)
        upperCategory == toUpperCase(item.category)
    IN  IF upperCategory = ELECTRONICS_CATEGORY
        THEN applyElectronicsTax(baseTotal)
        ELSE IF upperCategory = BOOKS_CATEGORY
        THEN applyBookDiscount(baseTotal, item.quantity)
        ELSE baseTotal

\* calculateShippingCost with a strict threshold
calculateShippingCost_Strict(sub) ==
    IF DCmp(sub, FREE_SHIPPING_THRESHOLD) > 0 THEN DZero
    ELSE STANDARD_SHIPPING_COST

calculateShippingCost(sub) ==
    IF DGeq(sub, FREE_SHIPPING_THRESHOLD) THEN DZero
    ELSE STANDARD_SHIPPING_COST

\* std::round(totalAmount * 100.0) / 100.0
roundToCents(totalAmount) ==
    DDiv(DRound(DMul(totalAmount, FromInt(100))), FromInt(100))

\* ------------------------------------------------------------------------
\* The callers.  A driver is a caller of calculateOrderTotal: the orders it
\* may assemble and how many calls it makes on its calculator.
\* ------------------------------------------------------------------------
MaxValidationItems == 3
MaxShippingItems == 2
MaxCalls == 3

Items(names, cents, quantities, categories) ==
    {OrderItem(n, Lit(c), q, k) :
        n \in names, c \in cents, q \in quantities, k \in categories}

\* the orders of at most n items from a catalog
OrdersUpTo(catalog, n) == UNION {[1..k -> catalog] : k \in 0..n}

Books == <<"B","O","O","K","S">>
BooksLower == <<"b","o","o","k","s">>
BooksMixed == <<"B","o","o","k","s">>
Electronics == <<"E","L","E","C","T","R","O","N","I","C","S">>
ElectronicsLower == <<"e","l","e","c","t","r","o","n","i","c","s">>
Accessories == <<"A","C","C","E","S","S","O","R","I","E","S">>
NoCategory == <<>>

\* every price of the catalogs, in cents
CatalogCents == {-1, 0, 15, 999, 1000, 1675, 2000, 3124, 5201, 10000}

\* "validation": valid and invalid items under three names
ValidationOrders ==
    OrdersUpTo(Items({"", "Pen", "Ink"}, {-1, 0}, {0, 1}, {Books}),
               MaxValidationItems)

\* "lines": one item, every price, quantity and category
LineOrders ==
    OrdersUpTo(Items({"Pen"}, {999, 1000, 10000}, {1, 2, 4, 5},
                     {Electronics, Books, Accessories, NoCategory})
               \cup Items({"Pen"}, {1000}, {0}, {Books}), 1)

\* "shipping": subtotals on both sides of the threshold
ShippingOrders ==
    OrdersUpTo(Items({"Pen"}, {15, 999, 2000}, {1, 5}, {Electronics, Books})
               \cup Items({"Pen"}, {2000}, {5}, {Accessories})
               \cup Items({"Pen"}, {10000}, {1}, {Accessories})
               \cup Items({""}, {2000}, {1}, {Accessories}),
               MaxShippingItems)

\* "repeat": orders that differ in the case of a category only, called
\* several times on one calculator
RepeatLine(category) == OrderItem("Pen", Lit(1000), 5, category)

RepeatOrders ==
    OrdersUpTo({RepeatLine(Books), RepeatLine(BooksLower),
                RepeatLine(BooksMixed), RepeatLine(ElectronicsLower)}, 1)
    \cup {<<RepeatLine(Books), RepeatLine(ElectronicsLower)>>,
          <<RepeatLine(BooksLower), RepeatLine(Electronics)>>}

\* "permute": the same three items in every order, priced twice
PermuteLine(cents) == OrderItem("Pen", Lit(cents), 1, Accessories)

PermuteItems == <<PermuteLine(1675), PermuteLine(5201), PermuteLine(3124)>>

PermuteOrders ==
    {[k \in 1..Len(PermuteItems) |-> PermuteItems[f[k]]] :
        f \in Permutations(1..Len(PermuteItems))}

Drivers == {"validation", "lines", "shipping", "repeat", "permute"}

Orders(d) ==
    CASE d = "validation" -> ValidationOrders
      [] d = "lines" -> LineOrders
      [] d = "shipping" -> ShippingOrders
      [] d = "repeat" -> RepeatOrders
      [] d = "permute" -> PermuteOrders

Calls(d) ==
    CASE d = "repeat" -> MaxCalls
      [] d = "permute" -> 2
      [] OTHER -> 1

\* ------------------------------------------------------------------------
\* State
\* ------------------------------------------------------------------------
VARIABLES
    driver,         \* the caller
    callsLeft,      \* calls the caller will still make
    completed,      \* log of the calls that have ended: argument, outcome
    pc,             \* position of the running call
    orderItems,     \* argument of the running call
    idx,            \* position of the running loop in orderItems (0: none)
    itemTotals,     \* the itemTotal of every calculateItemTotal so far
    subtotal,       \* local of calculateSubtotal / calculateOrderTotal
    shippingCost,   \* local of calculateOrderTotal
    result,         \* value returned
    error           \* exception thrown

\* concurrent callers of one OrderCalculator
VARIABLES
    threads         \* thread -> the frame of its calculateOrderTotal call

orderVars == <<driver, callsLeft, completed, pc, orderItems, idx, itemTotals,
               subtotal, shippingCost, result, error>>

threadVars == <<threads>>

\* a BankAccount (chapter 15) and its caller
VARIABLES
    balance,        \* BankAccount::balance
    transactions,   \* BankAccount::transactions
    bankCall,       \* the last call on the account and how it ended
    now             \* what std::time(nullptr) returned last

bankVars == <<balance, transactions, bankCall, now>>

\* a ShoppingCart (chapter 15) and its caller
VARIABLES
    cartItems,      \* ShoppingCart::items
    cartCall,       \* the last call on the cart and how it ended
    cartLog         \* the calls on the cart that ended without an exception

cartVars == <<cartItems, cartCall, cartLog>>

\* a caller of StringCalculator::add (chapter 15)
VARIABLES
    numbers,        \* the argument of the call
    calcPc,         \* "idle", "called" or "done"
    calcResult,     \* <<the int returned>>, <<>> while nothing is returned
    calcError       \* the exception thrown

calcVars == <<numbers, calcPc, calcResult, calcError>>

\* a caller of PasswordValidator::validatePassword (chapter 15)
VARIABLES
    password,       \* the argument of the call
    pwPc,           \* "idle", "called" or "done"
    pwErrors        \* ValidationResult::errors of the result returned

pwVars == <<password, pwPc, pwErrors>>

\* a User (chapter 14) and its caller
VARIABLES
    users,          \* the User objects that exist: <<>> or <<the object>>
    userCall        \* the last call on User and how it ended

userVars == <<users, userCall>>

vars == <<orderVars, threadVars, bankVars, cartVars, calcVars, pwVars,
          userVars>>

\* what a caller of calculateOrderTotal leaves alone
otherThanOrder == <<threadVars, bankVars, cartVars, calcVars, pwVars,
                    userVars>>

\* what the concurrent callers leave alone
otherThanThreads == <<orderVars, bankVars, cartVars, calcVars, pwVars,
                      userVars>>

\* what the calls on a BankAccount leave alone
otherThanBank == <<orderVars, threadVars, cartVars, calcVars, pwVars,
                   userVars>>

\* what the calls on a ShoppingCart leave alone
otherThanCart == <<orderVars, threadVars, bankVars, calcVars, pwVars,
                   userVars>>

\* what a caller of StringCalculator::add leaves alone
otherThanCalc == <<orderVars, threadVars, bankVars, cartVars, pwVars,
                   userVars>>

\* what a caller of validatePassword leaves alone
otherThanPw == <<orderVars, threadVars, bankVars, cartVars, calcVars,
                 userVars>>

\* what the calls on a User leave alone
otherThanUser == <<orderVars, threadVars, bankVars, cartVars, calcVars,
                   pwVars>>

\* a double variable that holds no value (not yet in scope)
NoValue == [neg |-> TRUE, mag |-> <<>>]

Outcome(items, value, err) == [items |-> items, value |-> value, error |-> err]

InitFor(d) ==
    /\ driver = d
    /\ callsLeft = Calls(d)
    /\ completed = <<>>
    /\ pc = "idle"
    /\ orderItems = <<>>
    /\ idx = 0
    /\ itemTotals = <<>>
    /\ subtotal = NoValue
    /\ shippingCost = NoValue
    /\ result = NoValue
    /\ error = NoError

\* no thread has been started
ThreadsUnused == threads = <<>>

\* a call on a BankAccount: its number, the operation, its argument, the
\* exception it threw ("": none)
BankCall(n, op, amount, err) ==
    [n |-> n, op |-> op, amount |-> amount, error |-> err]

\* no BankAccount has been constructed
BankUnused ==
    /\ balance = NoValue
    /\ transactions = <<>>
    /\ bankCall = BankCall(0, "", NoValue, "")
    /\ now = 0

\* a call on a ShoppingCart: its number, the operation, its arguments (args
\* is <<name, price>> or <<name, price, quantity>> for addItem, <<name>>
\* for removeItem), the exception it threw ("": none) and, for removeItem,
\* the value returned
CartCall(n, op, args, err, returned) ==
    [n |-> n, op |-> op, args |-> args, error |-> err, returned |-> returned]

\* a new ShoppingCart, nothing called yet
CartNew ==
    /\ cartItems = <<>>
    /\ cartCall = CartCall(0, "", <<>>, "", FALSE)
    /\ cartLog = <<>>

\* an exception of StringCalculator::add: its type and its message, a
\* string of characters
CalcException(kind, what) == [kind |-> kind, what |-> what]

NoException == CalcException("", <<>>)

\* add has not been called
CalcIdle ==
    /\ numbers = <<>>
    /\ calcPc = "idle"
    /\ calcResult = <<>>
    /\ calcError = NoException

\* validatePassword has not been called
PasswordIdle ==
    /\ password = <<>>
    /\ pwPc = "idle"
    /\ pwErrors = <<>>

\* a call on User: its number, the operation, its arguments, the exception
\* it threw ("": none)
UserCall(n, op, args, err, returned) ==
    [n |-> n, op |-> op, args |-> args, error |-> err, returned |-> returned]

\* no User has been constructed
UserNone ==
    /\ users = <<>>
    /\ userCall = UserCall(0, "", <<>>, "", <<>>)

Init ==
    /\ \E d \in Drivers : InitFor(d)
    /\ ThreadsUnused
    /\ BankUnused
    /\ CartNew
    /\ CalcIdle
    /\ PasswordIdle
    /\ UserNone

\* ------------------------------------------------------------------------
\* calculateOrderTotal, step by step
\* ------------------------------------------------------------------------
\* the caller calls calculateOrderTotal(its)
Call ==
    /\ pc \in {"idle", "returned", "thrown"}
    /\ callsLeft > 0
    /\ \E its \in Orders(driver) : orderItems' = its
    /\ callsLeft' = callsLeft - 1
    /\ pc' = "validate"
    /\ idx' = 0
    /\ itemTotals' = <<>>
    /\ subtotal' = NoValue
    /\ shippingCost' = NoValue
    /\ result' = NoValue
    /\ error' = NoError
    /\ UNCHANGED <<driver, completed>>
    /\ UNCHANGED otherThanOrder

\* throw: the call ends, nothing is returned
Throw(err) ==
    /\ pc' = "thrown"
    /\ error' = err
    /\ completed' = Append(completed, Outcome(orderItems, NoValue, err))
    /\ UNCHANGED <<driver, callsLeft, orderItems, idx, itemTotals, subtotal,
                   shippingCost, result>>

\* validateOrderItems: the check for an empty order
ValidateNotEmpty ==
    /\ pc = "validate"
    /\ idx = 0
    /\ IF orderItems = <<>>
       THEN Throw(InvalidArgument("Order must contain at least one item", ""))
       ELSE /\ idx' = 1
            /\ UNCHANGED <<driver, callsLeft, completed, pc, orderItems,
                           itemTotals, subtotal, shippingCost, result, error>>
    /\ UNCHANGED otherThanOrder

\* ValidateItem visiting the items from the last to the first
ValidateItem_Reversed ==
    /\ pc = "validate"
    /\ idx >= 1
    /\ LET item == orderItems[Len(orderItems) + 1 - idx]
       IN  IF validateItem(item) # NoError
           THEN Throw(validateItem(item))
           ELSE /\ IF idx < Len(orderItems)
                   THEN /\ idx' = idx + 1
                        /\ UNCHANGED <<pc, subtotal>>
                   ELSE /\ idx' = 1
                        /\ pc' = "subtotal"
                        /\ subtotal' = DZero
                /\ UNCHANGED <<driver, callsLeft, completed, orderItems,
                               itemTotals, shippingCost, result, error>>
    /\ UNCHANGED otherThanOrder

\* ValidateItem in a single loop with the pricing: an item that passes is
\* priced at once
ValidateItem_Pricing ==
    /\ pc = "validate"
    /\ idx >= 1
    /\ IF validateItem(orderItems[idx]) # NoError
       THEN Throw(validateItem(orderItems[idx]))
       ELSE /\ itemTotals' =
                   Append(itemTotals, calculateItemTotal(orderItems[idx]))
            /\ subtotal' = DAdd(IF subtotal = NoValue THEN DZero ELSE subtotal,
                                calculateItemTotal(orderItems[idx]))
            /\ IF idx < Len(orderItems)
               THEN idx' = idx + 1 /\ pc' = pc
               ELSE idx' = 0 /\ pc' = "shipping"
            /\ UNCHANGED <<driver, callsLeft, completed, orderItems,
                           shippingCost, result, error>>
    /\ UNCHANGED otherThanOrder

\* ValidateItem with a loop that ends one item early
ValidateItem_SkipLast ==
    /\ pc = "validate"
    /\ idx >= 1
    /\ IF idx < Len(orderItems) /\ validateItem(orderItems[idx]) # NoError
       THEN Throw(validateItem(orderItems[idx]))
       ELSE /\ IF idx + 1 < Len(orderItems)
               THEN /\ idx' = idx + 1
                    /\ UNCHANGED <<pc, subtotal>>
               ELSE /\ idx' = 1
                    /\ pc' = "subtotal"
                    /\ subtotal' = DZero
            /\ UNCHANGED <<driver, callsLeft, completed, orderItems,
                           itemTotals, shippingCost, result, error>>
    /\ UNCHANGED otherThanOrder

\* validateOrderItems: one turn of the loop; after the last item
\* validateOrderItems returns and calculateSubtotal starts with 0.0
ValidateItem ==
    /\ pc = "validate"
    /\ idx >= 1
    /\ IF validateItem(orderItems[idx]) # NoError
       THEN Throw(validateItem(orderItems[idx]))
       ELSE /\ IF idx < Len(orderItems)
               THEN /\ idx' = idx + 1
                    /\ UNCHANGED <<pc, subtotal>>
               ELSE /\ idx' = 1
                    /\ pc' = "subtotal"
                    /\ subtotal' = DZero
            /\ UNCHANGED <<driver, callsLeft, completed, orderItems,
                           itemTotals, shippingCost, result, error>>
    /\ UNCHANGED otherThanOrder

\* SubtotalItem with toUpperCase working on the item's own category instead
\* of a copy
SubtotalItem_Uppercasing ==
    /\ pc = "subtotal"
    /\ LET itemTotal == calculateItemTotal(orderItems[idx])
       IN  /\ itemTotals' = Append(itemTotals, itemTotal)
           /\ subtotal' = DAdd(subtotal, itemTotal)
    /\ orderItems' = [orderItems EXCEPT ![idx].category = toUpperCase(@)]
    /\ IF idx < Len(orderItems)
       THEN idx' = idx + 1 /\ pc' = pc
       ELSE idx' = 0 /\ pc' = "shipping"
    /\ UNCHANGED <<driver, callsLeft, completed, shippingCost, result, error>>
    /\ UNCHANGED otherThanOrder

\* calculateSubtotal: one turn of the loop
SubtotalItem ==
    /\ pc = "subtotal"
    /\ LET itemTotal == calculateItemTotal(orderItems[idx])
       IN  /\ itemTotals' = Append(itemTotals, itemTotal)
           /\ subtotal' = DAdd(subtotal, itemTotal)
    /\ IF idx < Len(orderItems)
       THEN idx' = idx + 1 /\ pc' = pc
       ELSE idx' = 0 /\ pc' = "shipping"
    /\ UNCHANGED <<driver, callsLeft, completed, orderItems, shippingCost,
                   result, error>>
    /\ UNCHANGED otherThanOrder

\* double shippingCost = calculateShippingCost(subtotal)
Shipping ==
    /\ pc = "shipping"
    /\ shippingCost' = calculateShippingCost(subtotal)
    /\ pc' = "total"
    /\ UNCHANGED <<driver, callsLeft, completed, orderItems, idx, itemTotals,
                   subtotal, result, error>>
    /\ UNCHANGED otherThanOrder

\* Total with the amount kept across calls: the total of the call before is
\* still in it
Total_Accumulating ==
    /\ pc = "total"
    /\ LET before      == IF completed # <<>>
                             /\ completed[Len(completed)].value # NoValue
                          THEN completed[Len(completed)].value
                          ELSE DZero
           totalAmount == DAdd(before, DAdd(subtotal, shippingCost))
       IN  /\ result' = roundToCents(totalAmount)
           /\ completed' = Append(completed,
                  Outcome(orderItems, roundToCents(totalAmount), NoError))
    /\ pc' = "returned"
    /\ UNCHANGED <<driver, callsLeft, orderItems, idx, itemTotals, subtotal,
                   shippingCost, error>>
    /\ UNCHANGED otherThanOrder

\* totalAmount = subtotal + shippingCost; return the rounded total
Total ==
    /\ pc = "total"
    /\ LET totalAmount == DAdd(subtotal, shippingCost)
       IN  /\ result' = roundToCents(totalAmount)
           /\ completed' = Append(completed,
                  Outcome(orderItems, roundToCents(totalAmount), NoError))
    /\ pc' = "returned"
    /\ UNCHANGED <<driver, callsLeft, orderItems, idx, itemTotals, subtotal,
                   shippingCost, error>>
    /\ UNCHANGED otherThanOrder

Next ==
    \/ Call
    \/ ValidateNotEmpty
    \/ ValidateItem
    \/ SubtotalItem
    \/ Shipping
    \/ Total

Spec == Init /\ [][Next]_vars

\* ------------------------------------------------------------------------
\* What the properties are stated with
\* ------------------------------------------------------------------------
\* the three constraints on an item
ValidItem(item) ==
    /\ item.quantity > 0
    /\ DGeq(item.price, DZero)
    /\ item.productName # ""

ValidOrder(items) ==
    /\ items # <<>>
    /\ \A i \in 1..Len(items) : ValidItem(items[i])

\* index of the first item of an order that breaks a constraint
FirstInvalid(items) ==
    CHOOSE k \in 1..Len(items) :
        /\ ~ValidItem(items[k])
        /\ \A j \in 1..(k - 1) : ValidItem(items[j])

\* the same text up to the case of its letters
SameLetters(a, b) ==
    /\ Len(a) = Len(b)
    /\ \A i \in 1..Len(a) :
          \/ a[i] = b[i]
          \/ \E k \in 1..Len(LowerCase) :
                {a[i], b[i]} = {LowerCase[k], UpperCase[k]}

IsElectronics(item) == SameLetters(item.category, Electronics)
IsBooks(item) == SameLetters(item.category, Books)

\* the doubles 1.10, 0.95, 100.00 and 10.00
D110 == Lit(110)
D095 == Lit(95)
D100 == Lit(10000)
D10 == Lit(1000)

\* unitPrice x quantity
LineTotal(item) == DMul(item.price, FromInt(item.quantity))

\* the adjusted line total the pricing rules give
RuleTotal(item) ==
    IF IsElectronics(item) THEN DMul(LineTotal(item), D110)
    ELSE IF IsBooks(item) /\ item.quantity >= 5
    THEN DMul(LineTotal(item), D095)
    ELSE LineTotal(item)

\* t[1] + ... + t[n], added in this order from 0.0
RECURSIVE SumTo(_, _)
SumTo(t, n) == IF n = 0 THEN DZero ELSE DAdd(SumTo(t, n - 1), t[n])

RuleTotals(items) == [i \in 1..Len(items) |-> RuleTotal(items[i])]
LineTotals(items) == [i \in 1..Len(items) |-> LineTotal(items[i])]

AdjustedSubtotal(items) == SumTo(RuleTotals(items), Len(items))
RawSubtotal(items) == SumTo(LineTotals(items), Len(items))

OneItem(cents, quantity, category) ==
    /\ Len(orderItems) = 1
    /\ orderItems[1].price = Lit(cents)
    /\ orderItems[1].quantity = quantity
    /\ orderItems[1].category = category

\* ------------------------------------------------------------------------
\* C1: calculateOrderTotal throws (invalid_argument, the one error kind)
\* exactly when the order is empty or some item has quantity <= 0, price < 0
\* or an empty product name; for every other order it returns a total and
\* throws nothing.
\* ------------------------------------------------------------------------
C1_InvalidOrderExactlyWhenInvalid ==
    /\ pc = "thrown" =>
          /\ ~ValidOrder(orderItems)
          /\ error # NoError
          /\ result = NoValue
    /\ pc = "returned" =>
          /\ ValidOrder(orderItems)
          /\ error = NoError
          /\ result # NoValue
    /\ pc \in {"subtotal", "shipping", "total"} => ValidOrder(orderItems)

\* an order whose only fault is the empty name of its second item has thrown
C1_Witness ==
    /\ pc = "thrown"
    /\ Len(orderItems) = 2
    /\ ValidItem(orderItems[1])
    /\ orderItems[2].productName = ""
    /\ orderItems[2].quantity > 0
    /\ DGeq(orderItems[2].price, DZero)

\* ------------------------------------------------------------------------
\* C2: validation is fail-fast in input order: when items are invalid,
\* exactly one error is thrown, it is one for the invalid item of lowest
\* index, its message ends with that item's product name, and the loop
\* stopped at that item: no later item was inspected.
\* ------------------------------------------------------------------------
ViolationsOf(item) ==
    {w \in {"Invalid quantity for item ", "Invalid price for item ",
            "Product name cannot be empty"} :
        \/ w = "Invalid quantity for item " /\ item.quantity <= 0
        \/ w = "Invalid price for item " /\ DLt(item.price, DZero)
        \/ w = "Product name cannot be empty" /\ item.productName = ""}

C2_FailFastInInputOrder ==
    (pc = "thrown" /\ orderItems # <<>>) =>
        LET k == FirstInvalid(orderItems)
        IN  /\ idx = k
            /\ error.what \in ViolationsOf(orderItems[k])
            /\ error.item = (IF error.what = "Product name cannot be empty"
                             THEN "" ELSE orderItems[k].productName)
            /\ completed[Len(completed)] =
                   Outcome(orderItems, NoValue, error)

\* the first invalid item is the second of three and the third, with another
\* name, is invalid too
C2_Witness ==
    /\ pc = "thrown"
    /\ Len(orderItems) = 3
    /\ ValidItem(orderItems[1])
    /\ ~ValidItem(orderItems[2])
    /\ ~ValidItem(orderItems[3])
    /\ orderItems[2].productName # orderItems[3].productName
    /\ orderItems[2].productName # ""
    /\ error.item = orderItems[2].productName

\* ------------------------------------------------------------------------
\* C3: every item is validated before anything is priced: when the call has
\* thrown, no line total, subtotal, shipping cost or total was computed, and
\* while anything is being priced all the items are valid.
\* ------------------------------------------------------------------------
C3_ValidationBeforePricing ==
    /\ pc = "thrown" =>
          /\ itemTotals = <<>>
          /\ subtotal = NoValue
          /\ shippingCost = NoValue
          /\ result = NoValue
    /\ (itemTotals # <<>> \/ subtotal # NoValue) => ValidOrder(orderItems)

\* only the last of three items is invalid
C3_Witness ==
    /\ pc = "thrown"
    /\ Len(orderItems) = 3
    /\ ValidItem(orderItems[1])
    /\ ValidItem(orderItems[2])
    /\ ~ValidItem(orderItems[3])

\* ------------------------------------------------------------------------
\* C4: the adjusted line total of every ELECTRONICS item is
\* unitPrice x quantity x 1.10, whatever the quantity; an order of one
\* ELECTRONICS item at 100.00 x 1 totals 110.00.
\* ------------------------------------------------------------------------
C4_ElectronicsTaxed ==
    /\ \A i \in 1..Len(itemTotals) :
          orderItems[i].category = Electronics =>
              itemTotals[i] = DMul(LineTotal(orderItems[i]), D110)
    /\ (pc = "returned" /\ OneItem(10000, 1, Electronics)) =>
          result = Lit(11000)

C4_Witness ==
    /\ pc = "returned"
    /\ OneItem(10000, 1, Electronics)
    /\ itemTotals = <<DMul(Lit(10000), Lit(110))>>
    /\ result = Lit(11000)

\* ------------------------------------------------------------------------
\* C5: the adjusted line total of every BOOKS item is
\* unitPrice x quantity x 0.95 when quantity >= 5 and unitPrice x quantity
\* when quantity <= 4; one BOOKS item at 10.00 x 5 totals 57.50 and at
\* 10.00 x 4 totals 50.00.
\* ------------------------------------------------------------------------
C5_BooksBulkDiscount ==
    /\ \A i \in 1..Len(itemTotals) :
          orderItems[i].category = Books =>
              itemTotals[i] =
                  (IF orderItems[i].quantity >= 5
                   THEN DMul(LineTotal(orderItems[i]), D095)
                   ELSE LineTotal(orderItems[i]))
    /\ (pc = "returned" /\ OneItem(1000, 5, Books)) => result = Lit(5750)
    /\ (pc = "returned" /\ OneItem(1000, 4, Books)) => result = Lit(5000)

\* the threshold itself: 10.00 x 5
C5_Witness ==
    /\ pc = "returned"
    /\ OneItem(1000, 5, Books)
    /\ itemTotals = <<Lit(4750)>>
    /\ result = Lit(5750)

\* ------------------------------------------------------------------------
\* C6: the adjusted line total of every item whose category is neither
\* ELECTRONICS nor BOOKS (the empty category too) is unitPrice x quantity,
\* whatever the quantity; one ACCESSORIES item at 9.99 x 2 totals 29.98.
\* ------------------------------------------------------------------------
C6_OtherCategoriesUnchanged ==
    /\ \A i \in 1..Len(itemTotals) :
          (~IsElectronics(orderItems[i]) /\ ~IsBooks(orderItems[i])) =>
              itemTotals[i] = LineTotal(orderItems[i])
    /\ (pc = "returned" /\ OneItem(999, 2, Accessories)) =>
          result = Lit(2998)

C6_Witness ==
    /\ pc = "returned"
    /\ OneItem(999, 2, Accessories)
    /\ itemTotals = <<Lit(1998)>>
    /\ result = Lit(2998)

\* an item of the empty category at quantity 5 has been priced unchanged
C6_WitnessNoCategory ==
    /\ pc = "returned"
    /\ OneItem(1000, 5, NoCategory)
    /\ itemTotals = <<Lit(5000)>>

\* ------------------------------------------------------------------------
\* C7: category matching is case-insensitive: two calls whose valid orders
\* differ only in the letter case of categories return the same value.
\* ------------------------------------------------------------------------
SameItemUpToCase(a, b) ==
    /\ a.productName = b.productName
    /\ a.price = b.price
    /\ a.quantity = b.quantity
    /\ SameLetters(a.category, b.category)

SameOrderUpToCase(a, b) ==
    /\ Len(a) = Len(b)
    /\ \A i \in 1..Len(a) : SameItemUpToCase(a[i], b[i])

C7_CategoryCaseInsensitive ==
    \A i, j \in 1..Len(completed) :
        (/\ ValidOrder(completed[i].items)
         /\ SameOrderUpToCase(completed[i].items, completed[j].items))
        => completed[i].value = completed[j].value

\* 'books' after 'BOOKS', both discounted
C7_Witness ==
    /\ Len(completed) = 2
    /\ completed[1].items = <<OrderItem("Pen", Lit(1000), 5, Books)>>
    /\ completed[2].items = <<OrderItem("Pen", Lit(1000), 5, BooksLower)>>
    /\ completed[1].value = Lit(5750)
    /\ completed[2].value = Lit(5750)

\* ------------------------------------------------------------------------
\* C8: shipping is 0.0 when the subtotal is >= 100.00 (100.00 included) and
\* 10.00 otherwise, the subtotal being the sum of the adjusted line totals,
\* not of the raw ones.
\* ------------------------------------------------------------------------
C8_ShippingOnAdjustedSubtotal ==
    pc \in {"total", "returned"} =>
        /\ subtotal = AdjustedSubtotal(orderItems)
        /\ shippingCost =
              (IF DGeq(AdjustedSubtotal(orderItems), D100)
               THEN DZero ELSE D10)

\* raw line totals below 100.00, adjusted subtotal above: ships free
C8_Witness ==
    /\ pc = "returned"
    /\ DLt(RawSubtotal(orderItems), D100)
    /\ DGeq(AdjustedSubtotal(orderItems), D100)
    /\ shippingCost = DZero

\* raw line totals at 100.00, discounted subtotal below: pays 10.00
C8_WitnessDiscounted ==
    /\ pc = "returned"
    /\ DGeq(RawSubtotal(orderItems), D100)
    /\ DLt(AdjustedSubtotal(orderItems), D100)
    /\ shippingCost = D10

\* subtotal exactly 100.00: ships free
C8_WitnessExactly100 ==
    /\ pc = "returned"
    /\ subtotal = D100
    /\ shippingCost = DZero
    /\ result = D100

\* ------------------------------------------------------------------------
\* C9: for every valid order the value returned is a non-negative whole
\* number of cents: subtotal + shipping rounded to 2 decimal places, halves
\* away from zero; the rounding is applied once, to the final sum, no line
\* total and no subtotal is rounded.
\*
\* The amounts of the claim are decimal.  They are computed here exactly, in
\* units of 1/2000 (a twentieth of a cent): a price of c cents is 20 c
\* units, and the rules multiply by 22/20, 19/20 or 20/20.
\* ------------------------------------------------------------------------
\* the price of an item in cents: the decimal its double was written as
Cents(item) == CHOOSE c \in CatalogCents : Lit(c) = item.price

DecimalRuleTotal(item) ==
    Cents(item) * item.quantity *
        (IF IsElectronics(item) THEN 22
         ELSE IF IsBooks(item) /\ item.quantity >= 5 THEN 19
         ELSE 20)

RECURSIVE DecimalSubtotal(_)
DecimalSubtotal(items) ==
    IF items = <<>> THEN 0
    ELSE DecimalRuleTotal(Head(items)) + DecimalSubtotal(Tail(items))

DecimalTotal(items) ==
    DecimalSubtotal(items)
        + (IF DecimalSubtotal(items) >= 200000 THEN 0 ELSE 20000)

\* units to cents, halves away from zero (units >= 0)
HalfAwayCents(units) == (units + 10) \div 20

C9_RoundedOnceHalfAway ==
    pc = "returned" =>
        /\ itemTotals = RuleTotals(orderItems)
        /\ subtotal = AdjustedSubtotal(orderItems)
        /\ HalfAwayCents(DecimalTotal(orderItems)) >= 0
        /\ result = Lit(HalfAwayCents(DecimalTotal(orderItems)))

\* ------------------------------------------------------------------------
\* C10: calculateOrderTotal is deterministic: two calls on the calculator
\* with equal orders have the same outcome, whatever was called before and
\* between them.
\* ------------------------------------------------------------------------
C10_Deterministic ==
    \A i, j \in 1..Len(completed) :
        completed[i].items = completed[j].items =>
            /\ completed[i].value = completed[j].value
            /\ completed[i].error = completed[j].error

\* the same valid order priced first and third, another one in between
C10_Witness ==
    /\ Len(completed) = 3
    /\ ValidOrder(completed[1].items)
    /\ completed[3].items = completed[1].items
    /\ completed[2].items # completed[1].items
    /\ ValidOrder(completed[2].items)
    /\ completed[2].value # completed[1].value
    /\ completed[3].value = completed[1].value
    /\ completed[1].value # NoValue

\* ------------------------------------------------------------------------
\* C11: the total returned is the same for every permutation of a valid
\* item list: two calls whose lists hold the same items in a different
\* order return the same value.
\* ------------------------------------------------------------------------
IsPermutation(s, t) ==
    /\ Len(s) = Len(t)
    /\ \E f \in Permutations(1..Len(s)) : \A k \in 1..Len(s) : t[k] = s[f[k]]

C11_PermutationInvariant ==
    \A i, j \in 1..Len(completed) :
        (/\ ValidOrder(completed[i].items)
         /\ IsPermutation(completed[i].items, completed[j].items))
            => completed[i].value = completed[j].value

\* ------------------------------------------------------------------------
\* C12: calculateOrderTotal has no side effects: from the call to its
\* return or its failure no step changes the item list passed in or a
\* field of one of its items, and the list the caller holds when the call
\* has ended is the list it passed.  (The pricing constants are static
\* const members: they are definitions here, no step can write them.)
\* ------------------------------------------------------------------------
C12_NoSideEffects ==
    [][pc \notin {"idle", "returned", "thrown"} => orderItems' = orderItems]_vars

\* a caller that had one call fail and one call return a total, its list
\* of mixed-case categories still as passed
C12_Witness ==
    /\ pc = "returned"
    /\ Len(completed) >= 2
    /\ \E i \in 1..Len(completed) : completed[i].error # NoError
    /\ completed[Len(completed)].items = orderItems
    /\ orderItems = <<RepeatLine(BooksLower), RepeatLine(Electronics)>>

\* ------------------------------------------------------------------------
\* C14: every OrderItem value has, for its whole lifetime, a non-empty
\* productName, a unitPrice >= 0 and a quantity > 0: the items a caller
\* has constructed and passed are all valid.
\* ------------------------------------------------------------------------
C14_EveryItemValid ==
    \A i \in 1..Len(orderItems) : ValidItem(orderItems[i])

\* C14 as amended: the OrderItem constructor validates nothing; the three
\* constraints hold of every item of an order once validateOrderItems has
\* accepted it, so of every order a total is returned for, and the item
\* list changes only when the caller passes a new one in a new call.
C14_AcceptedItemsValid ==
    /\ [](/\ pc \in {"subtotal", "shipping", "total", "returned"} =>
                \A i \in 1..Len(orderItems) : ValidItem(orderItems[i])
          /\ \A k \in 1..Len(completed) :
                completed[k].value # NoValue =>
                    \A i \in 1..Len(completed[k].items) :
                        ValidItem(completed[k].items[i]))
    /\ [][orderItems' # orderItems =>
              pc \in {"idle", "returned", "thrown"} /\ pc' = "validate"]_vars

\* an accepted order of three items, one of them free (unitPrice 0)
C14_Witness ==
    /\ pc = "returned"
    /\ Len(orderItems) = 3
    /\ orderItems[3].price = DZero
    /\ orderItems[1].productName # orderItems[2].productName

\* ========================================================================
\* Concurrent callers of one OrderCalculator (chapter 14).  OrderCalculator
\* has no data members: all a call works on is its argument and the locals
\* of its own frame.  Each thread runs calculateOrderTotal in the steps of
\* the sequential model; a step of one thread is atomic.
\* ========================================================================
MaxThreads == 2

Threads == 1..MaxThreads

\* the frame of one call: its argument and its locals
Frame(at, its, i, sub, ship, res, err) ==
    [pc |-> at, orderItems |-> its, idx |-> i, subtotal |-> sub,
     shippingCost |-> ship, result |-> res, error |-> err]

IdleFrame == Frame("idle", <<>>, 0, NoValue, NoValue, NoValue, NoError)

\* the orders the threads pass
ConcurrentOrders ==
    {<<>>,
     <<RepeatLine(BooksLower)>>,
     <<RepeatLine(Books), RepeatLine(ElectronicsLower)>>,
     <<RepeatLine(Books), OrderItem("Pen", Lit(1000), 0, Books)>>,
     PermuteItems}

\* the sequential caller is not running
OrderUnused ==
    /\ driver = "none"
    /\ callsLeft = 0
    /\ completed = <<>>
    /\ pc = "idle"
    /\ orderItems = <<>>
    /\ idx = 0
    /\ itemTotals = <<>>
    /\ subtotal = NoValue
    /\ shippingCost = NoValue
    /\ result = NoValue
    /\ error = NoError

ConcurrentInit ==
    /\ threads = [t \in Threads |-> IdleFrame]
    /\ OrderUnused
    /\ BankUnused
    /\ CartNew
    /\ CalcIdle
    /\ PasswordIdle
    /\ UserNone

\* thread t moves to frame f; no other frame is touched
Step(t, f) ==
    /\ threads' = [threads EXCEPT ![t] = f]
    /\ UNCHANGED otherThanThreads

ThrowIn(f, err) == [f EXCEPT !.pc = "thrown", !.error = err]

\* a thread calls calculateOrderTotal(its)
ThreadCall ==
    \E t \in Threads :
        /\ threads[t].pc \in {"idle", "returned", "thrown"}
        /\ \E its \in ConcurrentOrders :
              Step(t, Frame("validate", its, 0, NoValue, NoValue, NoValue,
                            NoError))

\* validateOrderItems: the check for an empty order
ThreadValidateNotEmpty ==
    \E t \in Threads :
        LET f == threads[t]
        IN  /\ f.pc = "validate"
            /\ f.idx = 0
            /\ IF f.orderItems = <<>>
               THEN Step(t, ThrowIn(f, InvalidArgument(
                                "Order must contain at least one item", "")))
               ELSE Step(t, [f EXCEPT !.idx = 1])

\* validateOrderItems: one turn of the loop
ThreadValidateItem ==
    \E t \in Threads :
        LET f == threads[t]
        IN  /\ f.pc = "validate"
            /\ f.idx >= 1
            /\ IF validateItem(f.orderItems[f.idx]) # NoError
               THEN Step(t, ThrowIn(f, validateItem(f.orderItems[f.idx])))
               ELSE IF f.idx < Len(f.orderItems)
               THEN Step(t, [f EXCEPT !.idx = f.idx + 1])
               ELSE Step(t, [f EXCEPT !.idx = 1, !.pc = "subtotal",
                                      !.subtotal = DZero])

\* ThreadSubtotalItem with the subtotal kept in a member of the calculator:
\* the threads that are summing all add to the one amount
ThreadSubtotalItem_Member ==
    \E t \in Threads :
        LET f == threads[t]
            summing == {u \in Threads : threads[u].pc = "subtotal"}
            sum == DAdd(f.subtotal, calculateItemTotal(f.orderItems[f.idx]))
        IN  /\ f.pc = "subtotal"
            /\ threads' =
                  [u \in Threads |->
                      IF u = t
                      THEN IF f.idx < Len(f.orderItems)
                           THEN [f EXCEPT !.idx = f.idx + 1, !.subtotal = sum]
                           ELSE [f EXCEPT !.idx = 0, !.pc = "shipping",
                                          !.subtotal = sum]
                      ELSE IF u \in summing
                      THEN [threads[u] EXCEPT !.subtotal = sum]
                      ELSE threads[u]]
            /\ UNCHANGED otherThanThreads

\* calculateSubtotal: one turn of the loop
ThreadSubtotalItem ==
    \E t \in Threads :
        LET f == threads[t]
            sum == DAdd(f.subtotal, calculateItemTotal(f.orderItems[f.idx]))
        IN  /\ f.pc = "subtotal"
            /\ IF f.idx < Len(f.orderItems)
               THEN Step(t, [f EXCEPT !.idx = f.idx + 1, !.subtotal = sum])
               ELSE Step(t, [f EXCEPT !.idx = 0, !.pc = "shipping",
                                      !.subtotal = sum])

\* double shippingCost = calculateShippingCost(subtotal)
ThreadShipping ==
    \E t \in Threads :
        LET f == threads[t]
        IN  /\ f.pc = "shipping"
            /\ Step(t, [f EXCEPT !.pc = "total",
                          !.shippingCost = calculateShippingCost(f.subtotal)])

\* totalAmount = subtotal + shippingCost; return the rounded total
ThreadTotal ==
    \E t \in Threads :
        LET f == threads[t]
        IN  /\ f.pc = "total"
            /\ Step(t, [f EXCEPT !.pc = "returned",
                          !.result = roundToCents(
                                        DAdd(f.subtotal, f.shippingCost))])

ConcurrentNext ==
    \/ ThreadCall
    \/ ThreadValidateNotEmpty
    \/ ThreadValidateItem
    \/ ThreadSubtotalItem
    \/ ThreadShipping
    \/ ThreadTotal

ConcurrentSpec == ConcurrentInit /\ [][ConcurrentNext]_vars

\* ------------------------------------------------------------------------
\* C13: under every interleaving of the steps of concurrent calls on one
\* OrderCalculator each call ends with exactly the outcome it has when run
\* alone (the total of its order by the pricing rules, or the error of its
\* first invalid item), and no step of a call touches the frame of another.
\* ------------------------------------------------------------------------
\* the outcome of calculateOrderTotal(items) run alone
AloneError(items) ==
    IF items = <<>>
    THEN InvalidArgument("Order must contain at least one item", "")
    ELSE IF ValidOrder(items) THEN NoError
    ELSE validateItem(items[FirstInvalid(items)])

AloneTotal(items) ==
    LET sub == AdjustedSubtotal(items)
    IN  roundToCents(DAdd(sub, IF DGeq(sub, D100) THEN DZero ELSE D10))

C13_ConcurrentCallsIndependent ==
    /\ [](\A t \in Threads :
            /\ threads[t].pc = "thrown" =>
                  /\ threads[t].error = AloneError(threads[t].orderItems)
                  /\ threads[t].error # NoError
                  /\ threads[t].result = NoValue
            /\ threads[t].pc = "returned" =>
                  /\ threads[t].result = AloneTotal(threads[t].orderItems)
                  /\ threads[t].error = NoError
                  /\ ValidOrder(threads[t].orderItems))
    /\ [][\E t \in Threads :
              \A u \in Threads \ {t} : threads'[u] = threads[u]]_vars

\* two calls in flight at once, both in their subtotal loops, on different
\* orders
C13_WitnessInFlight ==
    \E t, u \in Threads :
        /\ t # u
        /\ threads[t].pc = "subtotal"
        /\ threads[u].pc = "subtotal"
        /\ threads[t].idx = 2
        /\ threads[u].idx = 2
        /\ threads[t].orderItems # threads[u].orderItems

\* one call has returned 110.00 for the three items at 100.00 while another
\* has failed
C13_Witness ==
    \E t, u \in Threads :
        /\ threads[t].pc = "returned"
        /\ threads[t].orderItems = PermuteItems
        /\ threads[t].result = Lit(11000)
        /\ threads[u].pc = "thrown"
        /\ Len(threads[u].orderItems) = 2

\* ========================================================================
\* BankAccount (chapter 15).  balance and the amounts are doubles; every
\* Transaction takes its timestamp from std::time(nullptr), which the model
\* lets advance between two readings.
\* ========================================================================
MaxBankCalls == 4
MaxTime == 1

\* the arguments of the caller, in cents
InitialCents == {-5000, 0, 10000}
AmountCents == {-1000, 0, 10, 2500, 5000, 20000}

DGt(a, b) == DCmp(a, b) > 0
DLeq(a, b) == DCmp(a, b) <= 0

\* struct Transaction
Transaction(type, amount, description, timestamp) ==
    [type |-> type, amount |-> amount, description |-> description,
     timestamp |-> timestamp]

\* the operation ends with an exception: the object is as it was
BankThrow(op, amount, err) ==
    /\ bankCall' = BankCall(bankCall.n + 1, op, amount, err)
    /\ UNCHANGED <<balance, transactions, now>>

\* BankAccount(initialBalance); a constructor that throws leaves no object
construct(initialBalance, t) ==
    IF DLt(initialBalance, DZero)
    THEN BankThrow("BankAccount", initialBalance,
                   "invalid_argument: Initial balance cannot be negative")
    ELSE /\ balance' = initialBalance
         /\ IF DGt(initialBalance, DZero)
            THEN /\ transactions' = <<Transaction("DEPOSIT", initialBalance,
                                                  "Initial deposit", t)>>
                 /\ now' = t
            ELSE UNCHANGED <<transactions, now>>
         /\ bankCall' =
               BankCall(bankCall.n + 1, "BankAccount", initialBalance, "")

\* deposit that rejects negative amounts only
deposit_ZeroAllowed(amount, description, t) ==
    IF DLt(amount, DZero)
    THEN BankThrow("deposit", amount,
                   "invalid_argument: Deposit amount must be positive")
    ELSE /\ balance' = DAdd(balance, amount)
         /\ transactions' = Append(transactions,
               Transaction("DEPOSIT", amount, description, t))
         /\ now' = t
         /\ bankCall' = BankCall(bankCall.n + 1, "deposit", amount, "")

\* deposit(amount, description)
deposit(amount, description, t) ==
    IF DLeq(amount, DZero)
    THEN BankThrow("deposit", amount,
                   "invalid_argument: Deposit amount must be positive")
    ELSE /\ balance' = DAdd(balance, amount)
         /\ transactions' = Append(transactions,
               Transaction("DEPOSIT", amount, description, t))
         /\ now' = t
         /\ bankCall' = BankCall(bankCall.n + 1, "deposit", amount, "")

\* withdraw without the check of the funds
withdraw_NoFundsCheck(amount, description, t) ==
    IF DLeq(amount, DZero)
    THEN BankThrow("withdraw", amount,
                   "invalid_argument: Withdrawal amount must be positive")
    ELSE /\ balance' = DSub(balance, amount)
         /\ transactions' = Append(transactions,
               Transaction("WITHDRAWAL", amount, description, t))
         /\ now' = t
         /\ bankCall' = BankCall(bankCall.n + 1, "withdraw", amount, "")

\* withdraw that does not record the transaction
withdraw_Unrecorded(amount, description, t) ==
    IF DLeq(amount, DZero)
    THEN BankThrow("withdraw", amount,
                   "invalid_argument: Withdrawal amount must be positive")
    ELSE IF DGt(amount, balance)
    THEN BankThrow("withdraw", amount, "runtime_error: Insufficient funds")
    ELSE /\ balance' = DSub(balance, amount)
         /\ UNCHANGED <<transactions, now>>
         /\ bankCall' = BankCall(bankCall.n + 1, "withdraw", amount, "")

\* withdraw(amount, description)
withdraw(amount, description, t) ==
    IF DLeq(amount, DZero)
    THEN BankThrow("withdraw", amount,
                   "invalid_argument: Withdrawal amount must be positive")
    ELSE IF DGt(amount, balance)
    THEN BankThrow("withdraw", amount, "runtime_error: Insufficient funds")
    ELSE /\ balance' = DSub(balance, amount)
         /\ transactions' = Append(transactions,
               Transaction("WITHDRAWAL", amount, description, t))
         /\ now' = t
         /\ bankCall' = BankCall(bankCall.n + 1, "withdraw", amount, "")

\* the caller constructs its account
Construct ==
    /\ balance = NoValue
    /\ bankCall.n < MaxBankCalls
    /\ \E c \in InitialCents, t \in now..MaxTime : construct(Lit(c), t)
    /\ UNCHANGED otherThanBank

\* the caller deposits, with the default description
Deposit ==
    /\ balance # NoValue
    /\ bankCall.n < MaxBankCalls
    /\ \E c \in AmountCents, t \in now..MaxTime :
          deposit(Lit(c), "Deposit", t)
    /\ UNCHANGED otherThanBank

\* the caller withdraws, with the default description
Withdraw ==
    /\ balance # NoValue
    /\ bankCall.n < MaxBankCalls
    /\ \E c \in AmountCents, t \in now..MaxTime :
          withdraw(Lit(c), "Withdrawal", t)
    /\ UNCHANGED otherThanBank

BankInit ==
    /\ BankUnused
    /\ OrderUnused
    /\ ThreadsUnused
    /\ CartNew
    /\ CalcIdle
    /\ PasswordIdle
    /\ UserNone

BankNext ==
    \/ Construct
    \/ Deposit
    \/ Withdraw

BankSpec == BankInit /\ [][BankNext]_vars

\* ------------------------------------------------------------------------
\* What the BankAccount properties are stated with
\* ------------------------------------------------------------------------
\* this step is a call of op on the account (bankCall' describes it)
BankCalled(op) ==
    /\ bankCall'.n = bankCall.n + 1
    /\ bankCall'.op = op

\* the account is as it was
AccountUnchanged ==
    /\ balance' = balance
    /\ transactions' = transactions

\* this step appended exactly one transaction of the type and the amount;
\* what was recorded before it is as it was
AppendedOne(type, amount) ==
    /\ Len(transactions') = Len(transactions) + 1
    /\ SubSeq(transactions', 1, Len(transactions)) = transactions
    /\ transactions'[Len(transactions')].type = type
    /\ transactions'[Len(transactions')].amount = amount

\* ------------------------------------------------------------------------
\* C15: a BankAccount cannot be overdrawn: withdraw(amount) with amount
\* above the balance throws runtime_error and leaves balance and history as
\* they were; withdrawing exactly the balance succeeds and leaves 0; the
\* balance is never negative.
\* ------------------------------------------------------------------------
C15_NeverOverdrawn ==
    /\ [](balance # NoValue => DGeq(balance, DZero))
    /\ [][(BankCalled("withdraw") /\ DGt(bankCall'.amount, balance)) =>
              /\ bankCall'.error = "runtime_error: Insufficient funds"
              /\ AccountUnchanged]_vars
    /\ [][(/\ BankCalled("withdraw")
           /\ bankCall'.amount = balance
           /\ DGt(balance, DZero)) =>
              /\ bankCall'.error = ""
              /\ balance' = DZero]_vars

\* the test's account (100.00 + 50.00 - 25.00) after withdraw(200.00) threw
C15_Witness ==
    /\ bankCall.op = "withdraw"
    /\ bankCall.amount = Lit(20000)
    /\ bankCall.error = "runtime_error: Insufficient funds"
    /\ balance = Lit(12500)
    /\ Len(transactions) = 3

\* the whole balance withdrawn
C15_WitnessAll ==
    /\ bankCall.op = "withdraw"
    /\ bankCall.error = ""
    /\ bankCall.amount = Lit(5000)
    /\ balance = DZero
    /\ Len(transactions) = 2

\* ------------------------------------------------------------------------
\* C16: deposit(amount) and withdraw(amount) with amount <= 0 throw
\* invalid_argument (for withdraw whatever the funds) and leave balance and
\* history as they were; constructing an account with a negative initial
\* balance throws invalid_argument and no account exists.
\* ------------------------------------------------------------------------
C16_OutOfRangeRejected ==
    /\ [][(BankCalled("deposit") /\ DLeq(bankCall'.amount, DZero)) =>
              /\ bankCall'.error =
                    "invalid_argument: Deposit amount must be positive"
              /\ AccountUnchanged]_vars
    /\ [][(BankCalled("withdraw") /\ DLeq(bankCall'.amount, DZero)) =>
              /\ bankCall'.error =
                    "invalid_argument: Withdrawal amount must be positive"
              /\ AccountUnchanged]_vars
    /\ [][(BankCalled("BankAccount") /\ DLt(bankCall'.amount, DZero)) =>
              /\ bankCall'.error =
                    "invalid_argument: Initial balance cannot be negative"
              /\ balance' = NoValue
              /\ transactions' = <<>>]_vars

\* deposit(0.00) rejected on an account that holds 150.00
C16_Witness ==
    /\ bankCall.op = "deposit"
    /\ bankCall.amount = DZero
    /\ bankCall.error = "invalid_argument: Deposit amount must be positive"
    /\ balance = Lit(15000)
    /\ Len(transactions) = 2

\* withdraw(-10.00) rejected on an empty account
C16_WitnessWithdraw ==
    /\ bankCall.op = "withdraw"
    /\ bankCall.amount = Lit(-1000)
    /\ bankCall.error = "invalid_argument: Withdrawal amount must be positive"
    /\ balance = DZero

\* BankAccount(-50.00) rejected
C16_WitnessConstruct ==
    /\ bankCall.op = "BankAccount"
    /\ bankCall.amount = Lit(-5000)
    /\ bankCall.error = "invalid_argument: Initial balance cannot be negative"
    /\ balance = NoValue

\* ------------------------------------------------------------------------
\* C17: a successful deposit(a), a > 0, adds a to the balance and appends
\* one DEPOSIT of amount a; a successful withdraw(a), 0 < a <= balance,
\* takes a off the balance and appends one WITHDRAWAL of amount a; no step
\* alters or removes an earlier entry of the history.  (The amounts are
\* doubles: + and - are those of double.)
\* ------------------------------------------------------------------------
C17_BalanceAndHistory ==
    /\ [][(BankCalled("deposit") /\ DGt(bankCall'.amount, DZero)) =>
              /\ bankCall'.error = ""
              /\ balance' = DAdd(balance, bankCall'.amount)
              /\ AppendedOne("DEPOSIT", bankCall'.amount)]_vars
    /\ [][(/\ BankCalled("withdraw")
           /\ DGt(bankCall'.amount, DZero)
           /\ DLeq(bankCall'.amount, balance)) =>
              /\ bankCall'.error = ""
              /\ balance' = DSub(balance, bankCall'.amount)
              /\ AppendedOne("WITHDRAWAL", bankCall'.amount)]_vars
    /\ [][/\ Len(transactions') >= Len(transactions)
          /\ SubSeq(transactions', 1, Len(transactions)) = transactions]_vars

\* the test: 100.00, deposit(50.00), withdraw(25.00) leave 125.00 and the
\* three entries
C17_Witness ==
    /\ balance = Lit(12500)
    /\ bankCall.op = "withdraw"
    /\ bankCall.error = ""
    /\ Len(transactions) = 3
    /\ transactions[1].type = "DEPOSIT" /\ transactions[1].amount = Lit(10000)
    /\ transactions[2].type = "DEPOSIT" /\ transactions[2].amount = Lit(5000)
    /\ transactions[3].type = "WITHDRAWAL"
    /\ transactions[3].amount = Lit(2500)

\* ========================================================================
\* ShoppingCart (chapter 15)
\* ========================================================================
MaxCartCalls == 4

\* ShoppingCartItem: the object a constructor that did not throw leaves
ShoppingCartItem(name, price, quantity) ==
    [name |-> name, price |-> price, quantity |-> quantity]

\* ShoppingCartItem::ShoppingCartItem: the exception thrown ("": none)
ShoppingCartItemError(name, price, quantity) ==
    IF name = "" THEN "invalid_argument: Name cannot be empty"
    ELSE IF DLt(price, DZero) THEN "invalid_argument: Price cannot be negative"
    ELSE IF quantity <= 0 THEN "invalid_argument: Quantity must be positive"
    ELSE ""

\* ShoppingCartItem::getTotalPrice
ShoppingCartItem_getTotalPrice(item) ==
    DMul(item.price, FromInt(item.quantity))

\* getTotal: total after the first k turns of its loop
RECURSIVE TotalAfter(_, _)
TotalAfter(its, k) ==
    IF k = 0 THEN DZero
    ELSE DAdd(TotalAfter(its, k - 1), ShoppingCartItem_getTotalPrice(its[k]))

getTotal(its) == TotalAfter(its, Len(its))

\* getItemCount: count after the first k turns of its loop
RECURSIVE CountAfter(_, _)
CountAfter(its, k) ==
    IF k = 0 THEN 0 ELSE CountAfter(its, k - 1) + its[k].quantity

getItemCount(its) == CountAfter(its, Len(its))

getItemTypes(its) == Len(its)

hasItem(its, name) == \E i \in 1..Len(its) : its[i].name = name

\* std::find_if: the first entry of the name (0: items.end())
find_if(its, name) ==
    IF hasItem(its, name)
    THEN CHOOSE i \in 1..Len(its) :
            /\ its[i].name = name
            /\ \A j \in 1..(i - 1) : its[j].name # name
    ELSE 0

\* items.erase(it)
erase(its, i) == SubSeq(its, 1, i - 1) \o SubSeq(its, i + 1, Len(its))

\* the arguments of the caller's addItem calls; a call with two arguments
\* leaves the quantity to its default
CartAdds ==
    {<<"Apple", Lit(150), 2>>, <<"Banana", Lit(75), 3>>,
     <<"Apple", Lit(75)>>, <<"Banana", Lit(0), 1>>,
     <<"", Lit(150), 2>>, <<"Invalid", Lit(-100)>>,
     <<"Apple", Lit(150), 0>>, <<"Banana", Lit(75), -1>>,
     <<"", Lit(-100), 0>>}

\* the names the caller asks to remove
CartRemoves == {"Apple", "Banana", "Orange"}

\* the quantity of an addItem call: int quantity = 1
QuantityOf(args) == IF Len(args) = 3 THEN args[3] ELSE 1

\* addItem that appends the entry before the item is validated
addItem_ValidateAfter(args) ==
    LET item == ShoppingCartItem(args[1], args[2], QuantityOf(args))
        err  == ShoppingCartItemError(args[1], args[2], QuantityOf(args))
    IN  /\ cartItems' = Append(cartItems, item)
        /\ cartCall' = CartCall(cartCall.n + 1, "addItem", args, err, FALSE)
        /\ cartLog' = IF err = "" THEN Append(cartLog, cartCall')
                      ELSE cartLog

\* addItem(name, price, quantity = 1)
addItem(args) ==
    LET item == ShoppingCartItem(args[1], args[2], QuantityOf(args))
        err  == ShoppingCartItemError(args[1], args[2], QuantityOf(args))
    IN  /\ cartItems' = IF err = "" THEN Append(cartItems, item)
                        ELSE cartItems
        /\ cartCall' = CartCall(cartCall.n + 1, "addItem", args, err, FALSE)
        /\ cartLog' = IF err = "" THEN Append(cartLog, cartCall')
                      ELSE cartLog

\* removeItem that erases every entry of the name
removeItem_All(name) ==
    /\ cartItems' = SelectSeq(cartItems, LAMBDA item : item.name # name)
    /\ cartCall' = CartCall(cartCall.n + 1, "removeItem", <<name>>, "",
                            hasItem(cartItems, name))
    /\ cartLog' = Append(cartLog, cartCall')

\* removeItem(name)
removeItem(name) ==
    LET it == find_if(cartItems, name)
    IN  /\ cartItems' = IF it # 0 THEN erase(cartItems, it) ELSE cartItems
        /\ cartCall' = CartCall(cartCall.n + 1, "removeItem", <<name>>, "",
                                it # 0)
        /\ cartLog' = Append(cartLog, cartCall')

\* clear()
clear ==
    /\ cartItems' = <<>>
    /\ cartCall' = CartCall(cartCall.n + 1, "clear", <<>>, "", FALSE)
    /\ cartLog' = Append(cartLog, cartCall')

AddItem ==
    /\ cartCall.n < MaxCartCalls
    /\ \E args \in CartAdds : addItem(args)
    /\ UNCHANGED otherThanCart

RemoveItem ==
    /\ cartCall.n < MaxCartCalls
    /\ \E name \in CartRemoves : removeItem(name)
    /\ UNCHANGED otherThanCart

Clear ==
    /\ cartCall.n < MaxCartCalls
    /\ clear
    /\ UNCHANGED otherThanCart

CartInit ==
    /\ CartNew
    /\ OrderUnused
    /\ ThreadsUnused
    /\ BankUnused
    /\ CalcIdle
    /\ PasswordIdle
    /\ UserNone

CartNext ==
    \/ AddItem
    \/ RemoveItem
    \/ Clear

CartSpec == CartInit /\ [][CartNext]_vars

\* ------------------------------------------------------------------------
\* What the ShoppingCart properties are stated with
\* ------------------------------------------------------------------------
\* the entries a cart holds after the first k calls of a log: addItem adds
\* one entry (of quantity 1 when no quantity was passed), removeItem takes
\* the first entry of the name away, clear takes all away
RECURSIVE EntriesAfter(_, _)
EntriesAfter(log, k) ==
    IF k = 0 THEN <<>>
    ELSE LET held == EntriesAfter(log, k - 1)
             call == log[k]
         IN  CASE call.op = "addItem" ->
                    held \o <<[name |-> call.args[1], price |-> call.args[2],
                               quantity |-> IF Len(call.args) = 2 THEN 1
                                            ELSE call.args[3]]>>
               [] call.op = "clear" -> <<>>
               [] call.op = "removeItem" ->
                    LET named == {i \in 1..Len(held) :
                                     held[i].name = call.args[1]}
                    IN  IF named = {} THEN held
                        ELSE LET first == CHOOSE i \in named :
                                             \A j \in named : i <= j
                             IN  [i \in 1..(Len(held) - 1) |->
                                    IF i < first THEN held[i] ELSE held[i + 1]]

\* the sum of price x quantity over entries, added to acc in their order
RECURSIVE PriceSum(_, _)
PriceSum(acc, entries) ==
    IF entries = <<>> THEN acc
    ELSE PriceSum(DAdd(acc, DMul(Head(entries).price,
                                 FromInt(Head(entries).quantity))),
                  Tail(entries))

RECURSIVE QuantitySum(_)
QuantitySum(entries) ==
    IF entries = <<>> THEN 0
    ELSE Head(entries).quantity + QuantitySum(Tail(entries))

\* this step is a call of op on the cart (cartCall' describes it)
CartCalled(op) ==
    /\ cartCall'.n = cartCall.n + 1
    /\ cartCall'.op = op

\* every name a caller uses
CartNames == {args[1] : args \in CartAdds} \cup CartRemoves

\* ------------------------------------------------------------------------
\* C18: after any sequence of successful addItem, removeItem and clear
\* calls, getItemTypes is the number of entries held, getTotal the sum of
\* price x quantity over them and getItemCount the sum of their quantities;
\* a new and a cleared cart report 0 for all three; addItem without a
\* quantity adds quantity 1.
\* ------------------------------------------------------------------------
C18_CartAggregates ==
    LET held == EntriesAfter(cartLog, Len(cartLog))
    IN  /\ getItemTypes(cartItems) = Len(held)
        /\ getTotal(cartItems) = PriceSum(DZero, held)
        /\ getItemCount(cartItems) = QuantitySum(held)
        /\ (cartLog = <<>> \/ cartLog[Len(cartLog)].op = "clear") =>
              /\ getItemTypes(cartItems) = 0
              /\ getTotal(cartItems) = DZero
              /\ getItemCount(cartItems) = 0
        /\ (cartCall.op = "addItem" /\ cartCall.error = ""
                /\ Len(cartCall.args) = 2) =>
              cartItems[Len(cartItems)].quantity = 1

\* the test's cart: Apple 1.50 x 2 and Banana 0.75 x 3 total 5.25
C18_Witness ==
    /\ Len(cartLog) = 2
    /\ getItemTypes(cartItems) = 2
    /\ getTotal(cartItems) = Lit(525)
    /\ getItemCount(cartItems) = 5
    /\ hasItem(cartItems, "Apple")
    /\ ~hasItem(cartItems, "Orange")

\* of two entries of one name the first was removed, the second is held
C18_WitnessRemoved ==
    /\ cartCall.op = "removeItem"
    /\ cartCall.returned
    /\ Len(cartLog) = 4
    /\ getItemTypes(cartItems) = 2
    /\ hasItem(cartItems, cartCall.args[1])

\* a filled cart cleared
C18_WitnessCleared ==
    /\ cartCall.op = "clear"
    /\ Len(cartLog) = 3
    /\ cartLog[2].op = "addItem"
    /\ getItemTypes(cartItems) = 0

\* ------------------------------------------------------------------------
\* C19: addItem with an empty name, a negative price or a quantity <= 0
\* throws invalid_argument and leaves the cart as it was: getItemTypes,
\* getTotal, getItemCount and hasItem of every name return what they
\* returned before the call.
\* ------------------------------------------------------------------------
C19_InvalidAddRejected ==
    [][(/\ CartCalled("addItem")
        /\ \/ cartCall'.args[1] = ""
           \/ DLt(cartCall'.args[2], DZero)
           \/ Len(cartCall'.args) = 3 /\ cartCall'.args[3] <= 0) =>
           /\ cartCall'.error \in
                 {"invalid_argument: Name cannot be empty",
                  "invalid_argument: Price cannot be negative",
                  "invalid_argument: Quantity must be positive"}
           /\ getItemTypes(cartItems') = getItemTypes(cartItems)
           /\ getTotal(cartItems') = getTotal(cartItems)
           /\ getItemCount(cartItems') = getItemCount(cartItems)
           /\ \A name \in CartNames :
                 hasItem(cartItems', name) = hasItem(cartItems, name)]_vars

\* the test: addItem("Invalid", -1.00) has thrown on the cart of Apple and
\* Banana
C19_Witness ==
    /\ cartCall.op = "addItem"
    /\ cartCall.args = <<"Invalid", Lit(-100)>>
    /\ cartCall.error = "invalid_argument: Price cannot be negative"
    /\ getItemTypes(cartItems) = 2
    /\ getTotal(cartItems) = Lit(525)
    /\ ~hasItem(cartItems, "Invalid")

\* a quantity of 0 rejected
C19_WitnessQuantity ==
    /\ cartCall.op = "addItem"
    /\ cartCall.error = "invalid_argument: Quantity must be positive"
    /\ cartCall.args[3] = 0
    /\ getItemTypes(cartItems) = 1

\* ========================================================================
\* StringCalculator (chapter 15).  A std::string is a sequence of
\* characters, a character a string of length 1.
\* ========================================================================
MaxLen == 5

\* the characters of the caller's strings
Chars == {"1", "2", "-", "+", ",", "\n", "a", " "}

CalcInputs == UNION {[1..n -> Chars] : n \in 0..MaxLen}

INT_MAX == 2147483647
INT_MIN == -INT_MAX - 1

\* std::replace(first, last, old, new)
replace(str, old, new) ==
    [i \in 1..Len(str) |-> IF str[i] = old THEN new ELSE str[i]]

\* the position of the first delim of str, 0 when it has none
FirstOf(str, delim) ==
    IF \E i \in 1..Len(str) : str[i] = delim
    THEN CHOOSE i \in 1..Len(str) :
            /\ str[i] = delim
            /\ \A j \in 1..(i - 1) : str[j] # delim
    ELSE 0

\* the strings the calls std::getline(ss, numberString, delim) extract from
\* a stream over str until the stream is at its end
RECURSIVE getline(_, _)
getline(str, delim) ==
    IF str = <<>> THEN <<>>
    ELSE LET i == FirstOf(str, delim)
         IN  IF i = 0 THEN <<str>>
             ELSE <<SubSeq(str, 1, i - 1)>>
                      \o getline(SubSeq(str, i + 1, Len(str)), delim)

\* std::isspace in the "C" locale
isspace(c) == c \in {" ", "\t", "\n", "\r", "\f"}

Digits == <<"0", "1", "2", "3", "4", "5", "6", "7", "8", "9">>

isdigit(c) == \E d \in 1..10 : Digits[d] = c

DigitValue(c) == (CHOOSE d \in 1..10 : Digits[d] = c) - 1

\* the first position from i on that holds no white space
RECURSIVE SkipSpace(_, _)
SkipSpace(str, i) ==
    IF i <= Len(str) /\ isspace(str[i]) THEN SkipSpace(str, i + 1) ELSE i

\* the first position from i on that holds no digit
RECURSIVE SkipDigits(_, _)
SkipDigits(str, i) ==
    IF i <= Len(str) /\ isdigit(str[i]) THEN SkipDigits(str, i + 1) ELSE i

\* the outcome of a conversion: "int" and the value, or the exception
Converted(kind, value) == [kind |-> kind, value |-> value]

\* the digits str[i..j-1] taken into acc, a value of the sign sgn; a value
\* that leaves the range of int is "out_of_range"
RECURSIVE ToInt(_, _, _, _, _)
ToInt(str, i, j, acc, sgn) ==
    IF i >= j THEN Converted("int", acc)
    ELSE LET d == DigitValue(str[i])
         IN  IF sgn = 1
             THEN IF acc > (INT_MAX - d) \div 10
                  THEN Converted("out_of_range", 0)
                  ELSE ToInt(str, i + 1, j, acc * 10 + d, sgn)
             ELSE IF -acc > (IF d = 0 THEN INT_MAX \div 10
                             ELSE (INT_MAX - d + 1) \div 10)
                  THEN Converted("out_of_range", 0)
                  ELSE ToInt(str, i + 1, j, acc * 10 - d, sgn)

\* std::stoi(str): white space is skipped, then an optional sign and the
\* longest run of digits are converted; what follows them is ignored
stoi(str) ==
    LET start  == SkipSpace(str, 1)
        signed == start <= Len(str) /\ str[start] \in {"-", "+"}
        first  == IF signed THEN start + 1 ELSE start
        end    == SkipDigits(str, first)
    IN  IF end = first THEN Converted("invalid_argument", 0)
        ELSE ToInt(str, first, end, 0,
                   IF signed /\ str[start] = "-" THEN -1 ELSE 1)

\* std::to_string(int)
RECURSIVE DigitsOf(_)
DigitsOf(n) ==
    IF n < 10 THEN <<Digits[n + 1]>>
    ELSE DigitsOf(n \div 10) \o <<Digits[(n % 10) + 1]>>

to_string(n) == IF n < 0 THEN <<"-">> \o DigitsOf(-n) ELSE DigitsOf(n)

\* the locals of add after the first k turns of its while loop
AddLocals(parsedNumbers, negatives, exception) ==
    [parsedNumbers |-> parsedNumbers, negatives |-> negatives,
     exception |-> exception]

RECURSIVE ParsedAfter(_, _)
ParsedAfter(tokens, k) ==
    IF k = 0 THEN AddLocals(<<>>, <<>>, NoException)
    ELSE LET before == ParsedAfter(tokens, k - 1)
             number == stoi(tokens[k])
         IN  IF before.exception # NoException \/ tokens[k] = <<>>
             THEN before
             ELSE CASE number.kind = "invalid_argument" -> before
                    [] number.kind = "out_of_range" ->
                         [before EXCEPT !.exception =
                             CalcException("out_of_range",
                                           <<"s", "t", "o", "i">>)]
                    [] number.kind = "int" /\ number.value < 0 ->
                         [before EXCEPT !.negatives =
                             Append(@, number.value)]
                    [] OTHER ->
                         [before EXCEPT !.parsedNumbers =
                             Append(@, number.value)]

\* "Negatives not allowed: "
NegativesNotAllowed ==
    <<"N", "e", "g", "a", "t", "i", "v", "e", "s", " ", "n", "o", "t", " ",
      "a", "l", "l", "o", "w", "e", "d", ":", " ">>

\* errorMessage after the first k turns of the for loop
RECURSIVE errorMessage(_, _)
errorMessage(negatives, k) ==
    IF k = 0 THEN NegativesNotAllowed
    ELSE errorMessage(negatives, k - 1)
             \o (IF k > 1 THEN <<",", " ">> ELSE <<>>)
             \o to_string(negatives[k])

\* std::accumulate(first, last, 0) over the first k numbers
RECURSIVE accumulate(_, _)
accumulate(ns, k) == IF k = 0 THEN 0 ELSE accumulate(ns, k - 1) + ns[k]

\* what a call of add ends with: the value returned or the exception
AddOutcome(returned, exception) ==
    [returned |-> returned, exception |-> exception]

\* add that parses its argument as it is, commas only
add_CommasOnly(str) ==
    IF str = <<>> THEN AddOutcome(<<0>>, NoException)
    ELSE LET tokens == getline(str, ",")
             locals == ParsedAfter(tokens, Len(tokens))
         IN  IF locals.exception # NoException
             THEN AddOutcome(<<>>, locals.exception)
             ELSE IF locals.negatives # <<>>
             THEN AddOutcome(<<>>,
                     CalcException("runtime_error",
                         errorMessage(locals.negatives,
                                      Len(locals.negatives))))
             ELSE AddOutcome(<<accumulate(locals.parsedNumbers,
                                          Len(locals.parsedNumbers))>>,
                             NoException)

\* add that throws at the first negative number it meets
add_FirstNegative(str) ==
    IF str = <<>> THEN AddOutcome(<<0>>, NoException)
    ELSE LET normalizedNumbers == replace(str, "\n", ",")
             tokens == getline(normalizedNumbers, ",")
             locals == ParsedAfter(tokens, Len(tokens))
         IN  IF locals.exception # NoException
             THEN AddOutcome(<<>>, locals.exception)
             ELSE IF locals.negatives # <<>>
             THEN AddOutcome(<<>>,
                     CalcException("runtime_error",
                         errorMessage(locals.negatives, 1)))
             ELSE AddOutcome(<<accumulate(locals.parsedNumbers,
                                          Len(locals.parsedNumbers))>>,
                             NoException)

\* StringCalculator::add(numbers)
add(str) ==
    IF str = <<>> THEN AddOutcome(<<0>>, NoException)
    ELSE LET normalizedNumbers == replace(str, "\n", ",")
             tokens == getline(normalizedNumbers, ",")
             locals == ParsedAfter(tokens, Len(tokens))
         IN  IF locals.exception # NoException
             THEN AddOutcome(<<>>, locals.exception)
             ELSE IF locals.negatives # <<>>
             THEN AddOutcome(<<>>,
                     CalcException("runtime_error",
                         errorMessage(locals.negatives,
                                      Len(locals.negatives))))
             ELSE AddOutcome(<<accumulate(locals.parsedNumbers,
                                          Len(locals.parsedNumbers))>>,
                             NoException)

\* the caller calls calculator.add(str)
CalcCall ==
    /\ calcPc = "idle"
    /\ \E str \in CalcInputs : numbers' = str
    /\ calcPc' = "called"
    /\ UNCHANGED <<calcResult, calcError>>
    /\ UNCHANGED otherThanCalc

\* add runs and returns or throws
Add ==
    /\ calcPc = "called"
    /\ calcResult' = add(numbers).returned
    /\ calcError' = add(numbers).exception
    /\ calcPc' = "done"
    /\ UNCHANGED numbers
    /\ UNCHANGED otherThanCalc

CalcInit ==
    /\ CalcIdle
    /\ OrderUnused
    /\ ThreadsUnused
    /\ BankUnused
    /\ CartNew
    /\ PasswordIdle
    /\ UserNone

CalcNext ==
    \/ CalcCall
    \/ Add

CalcSpec == CalcInit /\ [][CalcNext]_vars

\* ------------------------------------------------------------------------
\* What the StringCalculator properties are stated with
\* ------------------------------------------------------------------------
Delimiters == {",", "\n"}

\* the tokens of a string between its delimiters, of either kind
RECURSIVE TokensOf(_)
TokensOf(str) ==
    IF str = <<>> THEN << <<>> >>
    ELSE LET rest == TokensOf(Tail(str))
         IN  IF Head(str) \in Delimiters THEN << <<>> >> \o rest
             ELSE << <<Head(str)>> \o rest[1] >> \o Tail(rest)

IsNumber(token) ==
    \A i \in 1..Len(token) :
        token[i] \in {"0", "1", "2", "3", "4", "5", "6", "7", "8", "9"}

\* the number a string of decimal digits writes (0 for the empty token)
RECURSIVE DecimalValue(_)
DecimalValue(token) ==
    IF token = <<>> THEN 0
    ELSE 10 * DecimalValue(SubSeq(token, 1, Len(token) - 1))
             + DigitValue(token[Len(token)])

RECURSIVE SumOfTokens(_)
SumOfTokens(tokens) ==
    IF tokens = <<>> THEN 0
    ELSE DecimalValue(Head(tokens)) + SumOfTokens(Tail(tokens))

\* a list of non-negative integers: every token a number or empty
IsListOfNumbers(str) ==
    \A k \in 1..Len(TokensOf(str)) : IsNumber(TokensOf(str)[k])

\* the strings that differ from str in the kind of some delimiters only
RECURSIVE DelimiterVariants(_)
DelimiterVariants(str) ==
    IF str = <<>> THEN {<<>>}
    ELSE {<<c>> \o rest :
             c \in (IF Head(str) \in Delimiters THEN Delimiters
                    ELSE {Head(str)}),
             rest \in DelimiterVariants(Tail(str))}

\* ------------------------------------------------------------------------
\* C20: add returns the sum of the non-negative integers of a list
\* delimited by ',' or '\n': the empty string gives 0, empty tokens
\* contribute nothing, and exchanging one kind of delimiter for the other
\* anywhere in the argument never changes what add ends with.
\* ------------------------------------------------------------------------
C20_SumOfDelimitedList ==
    calcPc = "done" =>
        /\ numbers = <<>> => calcResult = <<0>> /\ calcError = NoException
        /\ IsListOfNumbers(numbers) =>
              /\ calcResult = <<SumOfTokens(TokensOf(numbers))>>
              /\ calcError = NoException
        /\ \A other \in DelimiterVariants(numbers) :
              add(other) = AddOutcome(calcResult, calcError)

\* "1,\n2": both delimiters, an empty token between them, the sum 3
C20_Witness ==
    /\ calcPc = "done"
    /\ numbers = <<"1", ",", "\n", "2">>
    /\ calcResult = <<3>>
    /\ calcError = NoException

\* the empty string
C20_WitnessEmpty ==
    /\ calcPc = "done"
    /\ numbers = <<>>
    /\ calcResult = <<0>>

\* a number of several digits
C20_WitnessDigits ==
    /\ calcPc = "done"
    /\ numbers = <<"1", "2", "\n", "2">>
    /\ calcResult = <<14>>

\* ------------------------------------------------------------------------
\* C21: add throws runtime_error whenever at least one number of the input
\* is negative, wherever it stands and whatever the other numbers are: no
\* sum is returned, and the message lists every negative number of the
\* input, in input order.
\* ------------------------------------------------------------------------
\* an integer as a list writes it: digits, or '-' and digits
IsInteger(token) ==
    \/ IsNumber(token)
    \/ /\ Len(token) >= 2
       /\ token[1] = "-"
       /\ IsNumber(Tail(token))

IsListOfIntegers(str) ==
    \A k \in 1..Len(TokensOf(str)) : IsInteger(TokensOf(str)[k])

\* the negative integers among tokens, as they are written, in their order
NegativeTokens(tokens) ==
    SelectSeq(tokens, LAMBDA token :
        /\ token # <<>>
        /\ token[1] = "-"
        /\ DecimalValue(Tail(token)) > 0)

\* tokens joined by ", "
RECURSIVE Joined(_)
Joined(tokens) ==
    IF tokens = <<>> THEN <<>>
    ELSE IF Len(tokens) = 1 THEN tokens[1]
    ELSE tokens[1] \o <<",", " ">> \o Joined(Tail(tokens))

C21_WitnessTest ==
    /\ calcPc = "done"
    /\ numbers = <<"1", ",", "-", "2">>
    /\ calcError.kind = "runtime_error"

\* a negative number first, a positive one after it
C21_WitnessFirst ==
    /\ calcPc = "done"
    /\ numbers = <<"-", "1", "2", ",", "2">>
    /\ calcError.what = NegativesNotAllowed \o <<"-", "1", "2">>

\* ========================================================================
\* PasswordValidator (chapter 15)
\* ========================================================================

\* the longest run of characters appended to a stem
MaxSuffixLen == 3

\* the passwords of testPasswordValidator, the common passwords with some
\* of their spellings, and a stem no rule likes
PasswordStems ==
    { <<>>,
      <<"s","h","o","r","t">>,
      <<"-","-","-","-","-">>,
      <<"p","a","s","s","w","o","r","d">>,
      <<"P","a","s","s","w","o","r","d">>,
      <<"P","A","S","S","W","O","R","D">>,
      <<"p","a","s","s","w","o","r","d","1","2","3">>,
      <<"P","a","s","s","w","o","r","d","1","2","3">>,
      <<"1","2","3","4","5","6">>,
      <<"q","w","e","r","t","y">>,
      <<"a","b","c","1","2","3">>,
      <<"A","B","C","1","2","3">>,
      <<"l","e","t","m","e","i","n">>,
      <<"L","e","t","M","e","I","n">> }

PasswordChars == {"A", "a", "1", "!", "*", "-"}

PasswordInputs ==
    { stem \o word : stem \in PasswordStems,
                     word \in UNION {[1..n -> PasswordChars] :
                                        n \in 0..MaxSuffixLen} }

MINIMUM_LENGTH == 8

COMMON_PASSWORDS ==
    << <<"p","a","s","s","w","o","r","d">>,
       <<"p","a","s","s","w","o","r","d","1","2","3">>,
       <<"1","2","3","4","5","6">>,
       <<"q","w","e","r","t","y">>,
       <<"a","b","c","1","2","3">>,
       <<"l","e","t","m","e","i","n">> >>

isupper(c) == \E i \in 1..Len(UpperCase) : UpperCase[i] = c

islower(c) == \E i \in 1..Len(LowerCase) : LowerCase[i] = c

tolower(c) ==
    IF \E i \in 1..Len(UpperCase) : UpperCase[i] = c
    THEN LowerCase[CHOOSE i \in 1..Len(UpperCase) : UpperCase[i] = c]
    ELSE c

\* std::any_of over the characters of a string
any_of(str, pred(_)) == \E i \in 1..Len(str) : pred(str[i])

hasMinimumLength(pw) == Len(pw) >= MINIMUM_LENGTH

hasUppercaseCharacter(pw) == any_of(pw, isupper)

hasLowercaseCharacter(pw) == any_of(pw, islower)

hasDigit(pw) == any_of(pw, isdigit)

specialChars == <<"!", "@", "#", "$", "%", "^", "&", "*">>

hasSpecialCharacter(pw) ==
    LET found(c) == \E i \in 1..Len(specialChars) : specialChars[i] = c
    IN  any_of(pw, found)

isCommonPassword(pw) ==
    LET lowerPassword == [i \in 1..Len(pw) |-> tolower(pw[i])]
    IN  \E i \in 1..Len(COMMON_PASSWORDS) : lowerPassword = COMMON_PASSWORDS[i]

\* ValidationResult
addError(errors, e) == Append(errors, e)

ValidationResult_isValid(errors) == errors = <<>>

PasswordEmpty == "Password cannot be empty"
PasswordTooShort == "Password must be at least 8 characters long"
PasswordNoUppercase == "Password must contain at least one uppercase letter"
PasswordNoLowercase == "Password must contain at least one lowercase letter"
PasswordNoDigit == "Password must contain at least one digit"
PasswordNoSpecial ==
    "Password must contain at least one special character (!@#$%^&*)"
PasswordTooCommon ==
    "Password is too common. Please choose a more secure password"

\* validatePassword that returns at its first error
validatePassword_FailFast(pw) ==
    IF pw = <<>> THEN addError(<<>>, PasswordEmpty)
    ELSE IF ~hasMinimumLength(pw) THEN addError(<<>>, PasswordTooShort)
    ELSE IF ~hasUppercaseCharacter(pw) THEN addError(<<>>, PasswordNoUppercase)
    ELSE IF ~hasLowercaseCharacter(pw) THEN addError(<<>>, PasswordNoLowercase)
    ELSE IF ~hasDigit(pw) THEN addError(<<>>, PasswordNoDigit)
    ELSE IF ~hasSpecialCharacter(pw) THEN addError(<<>>, PasswordNoSpecial)
    ELSE IF isCommonPassword(pw) THEN addError(<<>>, PasswordTooCommon)
    ELSE <<>>

\* the errors of the ValidationResult returned
validatePassword(pw) ==
    IF pw = <<>> THEN addError(<<>>, PasswordEmpty)
    ELSE
        LET r1 == IF ~hasMinimumLength(pw)
                  THEN addError(<<>>, PasswordTooShort) ELSE <<>>
            r2 == IF ~hasUppercaseCharacter(pw)
                  THEN addError(r1, PasswordNoUppercase) ELSE r1
            r3 == IF ~hasLowercaseCharacter(pw)
                  THEN addError(r2, PasswordNoLowercase) ELSE r2
            r4 == IF ~hasDigit(pw)
                  THEN addError(r3, PasswordNoDigit) ELSE r3
            r5 == IF ~hasSpecialCharacter(pw)
                  THEN addError(r4, PasswordNoSpecial) ELSE r4
        IN  IF isCommonPassword(pw)
            THEN addError(r5, PasswordTooCommon) ELSE r5

\* a caller passes a password
PasswordCall ==
    /\ pwPc = "idle"
    /\ \E pw \in PasswordInputs : password' = pw
    /\ pwPc' = "called"
    /\ UNCHANGED pwErrors
    /\ UNCHANGED otherThanPw

\* validatePassword runs and returns its result
ValidatePassword ==
    /\ pwPc = "called"
    /\ pwErrors' = validatePassword(password)
    /\ pwPc' = "done"
    /\ UNCHANGED password
    /\ UNCHANGED otherThanPw

PasswordInit ==
    /\ PasswordIdle
    /\ OrderUnused
    /\ ThreadsUnused
    /\ BankUnused
    /\ CartNew
    /\ CalcIdle
    /\ UserNone

PasswordNext ==
    \/ PasswordCall
    \/ ValidatePassword

PasswordSpec == PasswordInit /\ [][PasswordNext]_vars

\* ------------------------------------------------------------------------
\* What the PasswordValidator properties are stated with
\* ------------------------------------------------------------------------
SpecialCharacters == {"!", "@", "#", "$", "%", "^", "&", "*"}

SameIgnoringCase(a, b) ==
    /\ Len(a) = Len(b)
    /\ \A i \in 1..Len(a) : toupper(a[i]) = toupper(b[i])

\* the six rules, in the order their errors are reported, each with its
\* error
PasswordRules(pw) ==
    << [holds |-> Len(pw) >= 8, error |-> PasswordTooShort],
       [holds |-> \E i \in 1..Len(pw), u \in 1..26 : pw[i] = UpperCase[u],
        error |-> PasswordNoUppercase],
       [holds |-> \E i \in 1..Len(pw), l \in 1..26 : pw[i] = LowerCase[l],
        error |-> PasswordNoLowercase],
       [holds |-> \E i \in 1..Len(pw), d \in 1..10 : pw[i] = Digits[d],
        error |-> PasswordNoDigit],
       [holds |-> \E i \in 1..Len(pw) : pw[i] \in SpecialCharacters,
        error |-> PasswordNoSpecial],
       [holds |-> \A c \in 1..Len(COMMON_PASSWORDS) :
                      ~SameIgnoringCase(pw, COMMON_PASSWORDS[c]),
        error |-> PasswordTooCommon] >>

Violated(rule) == ~rule.holds

\* one error for each violated rule, in the order of the rules
ErrorsOfViolated(pw) ==
    LET violated == SelectSeq(PasswordRules(pw), Violated)
    IN  [i \in 1..Len(violated) |-> violated[i].error]

\* C22: validatePassword of a non-empty password returns exactly one error
\* for each violated rule, in the fixed order length >= 8, uppercase letter,
\* lowercase letter, digit, special character, not a common password (any
\* spelling of its letters), so the result is valid exactly when all six
\* rules hold; the empty password returns the one error "Password cannot be
\* empty" and nothing else.
C22_AggregateErrors ==
    pwPc = "done" =>
        IF password = <<>>
        THEN pwErrors = <<PasswordEmpty>>
        ELSE /\ pwErrors = ErrorsOfViolated(password)
             /\ ValidationResult_isValid(pwErrors) <=>
                    \A r \in 1..6 : PasswordRules(password)[r].holds

\* "password123" of the tests: three rules violated, three errors in order
C22_Witness ==
    /\ pwPc = "done"
    /\ password = <<"p","a","s","s","w","o","r","d","1","2","3">>
    /\ pwErrors = <<PasswordNoUppercase, PasswordNoSpecial, PasswordTooCommon>>

\* "Password123!" of the tests is valid
C22_WitnessValid ==
    /\ pwPc = "done"
    /\ password = <<"P","a","s","s","w","o","r","d","1","2","3","!">>
    /\ ValidationResult_isValid(pwErrors)

\* the empty password
C22_WitnessEmpty ==
    /\ pwPc = "done"
    /\ password = <<>>
    /\ Len(pwErrors) = 1

\* "-----" violates every rule but the last
C22_WitnessFive ==
    /\ pwPc = "done"
    /\ password = <<"-","-","-","-","-">>
    /\ Len(pwErrors) = 5

\* a common password in another spelling is still too common
C22_WitnessSpelling ==
    /\ pwPc = "done"
    /\ password = <<"P","A","S","S","W","O","R","D">>
    /\ pwErrors = <<PasswordNoLowercase, PasswordNoDigit, PasswordNoSpecial,
                    PasswordTooCommon>>

\* ========================================================================
\* User (chapter 14)
\* ========================================================================

\* the calls made on User, the constructor included
MaxUserCalls == 3

MINIMUM_NAME_LENGTH == 2
MINIMUM_AGE == 0
MAXIMUM_AGE == 150
ADULT_AGE_THRESHOLD == 18

\* the names a caller passes
UserNames ==
    { <<>>, <<" ", " ">>, <<"X">>, <<" ", "X", " ">>, <<"\t", "\t">>,
      <<"A", "l">>, <<" ", "A", "l", " ", " ">>, <<"A", " ", "l">> }

\* the emails a caller passes: spaces, a local part, at signs, a domain, a
\* dot, a top-level domain and what follows it
UserEmails ==
    LET EmailLead == {<<>>, <<" ">>}
        EmailLocal == {<<>>, <<"a">>, <<"A", ".", "b">>, <<"a", " ">>}
        EmailAt == {<<>>, <<"@">>, <<"@", "@">>}
        EmailDomain == {<<>>, <<"b">>, <<"B", "-", "c", ".", "d">>,
                        <<"b", "_">>}
        EmailDot == {<<>>, <<".">>}
        EmailTop == {<<"c">>, <<"c", "o">>, <<"C", "o", "m">>, <<"c", "1">>}
        EmailTrail == {<<>>, <<" ">>, <<"\t">>}
    IN  { lead \o local \o at \o domain \o dot \o top \o trail :
            lead \in EmailLead, local \in EmailLocal, at \in EmailAt,
            domain \in EmailDomain, dot \in EmailDot, top \in EmailTop,
            trail \in EmailTrail }

UserAges == {-5, 0, 25, 150, 151}

\* std::string::npos, as a position no string has
npos == 0

find_first_not_of(str, c) ==
    IF \E i \in 1..Len(str) : str[i] # c
    THEN CHOOSE i \in 1..Len(str) :
            /\ str[i] # c
            /\ \A j \in 1..(i - 1) : str[j] = c
    ELSE npos

find_last_not_of(str, c) ==
    IF \E i \in 1..Len(str) : str[i] # c
    THEN CHOOSE i \in 1..Len(str) :
            /\ str[i] # c
            /\ \A j \in (i + 1)..Len(str) : str[j] = c
    ELSE npos

trim(str) ==
    LET first == find_first_not_of(str, " ")
        last == find_last_not_of(str, " ")
    IN  IF first = npos THEN <<>> ELSE SubSeq(str, first, last)

\* the character classes of EMAIL_PATTERN
AlnumClass(c) == isupper(c) \/ islower(c) \/ isdigit(c)
LocalClass(c) == AlnumClass(c) \/ c \in {".", "_", "%", "+", "-"}
DomainClass(c) == AlnumClass(c) \/ c \in {".", "-"}
TopClass(c) == isupper(c) \/ islower(c)

\* every character of str from position a to position b is of the class
AllOf(str, a, b, class(_)) == \A i \in a..b : class(str[i])

\* std::regex_match of a whole string with EMAIL_PATTERN
\* ^[a-zA-Z0-9._%+-]+@[a-zA-Z0-9.-]+\.[a-zA-Z]{2,}$ : some split of the
\* string into the five parts matches
regex_match(str) ==
    \E at \in 2..Len(str) : \E dot \in (at + 2)..(Len(str) - 2) :
        /\ AllOf(str, 1, at - 1, LocalClass)
        /\ str[at] = "@"
        /\ AllOf(str, at + 1, dot - 1, DomainClass)
        /\ str[dot] = "."
        /\ AllOf(str, dot + 1, Len(str), TopClass)

\* what a validator does: the exception it throws ("": none) or the value
\* it returns
Validated(exception, returned) ==
    [exception |-> exception, returned |-> returned]

validateName(nameValue) ==
    IF nameValue = <<>> \/ find_first_not_of(nameValue, " ") = npos
    THEN Validated("Name cannot be null or empty", <<>>)
    ELSE
        LET trimmedName == trim(nameValue)
        IN  IF Len(trimmedName) < MINIMUM_NAME_LENGTH
            THEN Validated("Name must be at least 2 characters long", <<>>)
            ELSE Validated("", trimmedName)

\* validateEmail that returns the trimmed email as it was spelled
validateEmail_AsSpelled(emailValue) ==
    IF emailValue = <<>>
    THEN Validated("Email cannot be null or empty", <<>>)
    ELSE
        LET trimmedEmail == trim(emailValue)
        IN  IF ~regex_match(trimmedEmail)
            THEN Validated("Email must be in valid format", <<>>)
            ELSE Validated("", trimmedEmail)

validateEmail(emailValue) ==
    IF emailValue = <<>>
    THEN Validated("Email cannot be null or empty", <<>>)
    ELSE
        LET trimmedEmail == trim(emailValue)
        IN  IF ~regex_match(trimmedEmail)
            THEN Validated("Email must be in valid format", <<>>)
            ELSE
                LET lowerEmail == [i \in 1..Len(trimmedEmail) |->
                                       tolower(trimmedEmail[i])]
                IN  Validated("", lowerEmail)

validateAge(ageValue) ==
    IF ageValue < MINIMUM_AGE \/ ageValue > MAXIMUM_AGE
    THEN Validated("Age must be between 0 and 150", 0)
    ELSE Validated("", ageValue)

\* a User object
User(name, email, age, isVerified) ==
    [name |-> name, email |-> email, age |-> age, isVerified |-> isVerified]

\* the constructor: the members are initialised in the order name, email,
\* age, isVerified, and the first exception leaves no object
User_User(name, email, age) ==
    LET n == validateName(name)
        e == validateEmail(email)
        a == validateAge(age)
    IN  IF n.exception # "" THEN [exception |-> n.exception, object |-> <<>>]
        ELSE IF e.exception # ""
        THEN [exception |-> e.exception, object |-> <<>>]
        ELSE IF a.exception # ""
        THEN [exception |-> a.exception, object |-> <<>>]
        ELSE [exception |-> "",
              object |-> <<User(n.returned, e.returned, a.returned, FALSE)>>]

setIsVerified(user, verified) == [user EXCEPT !.isVerified = verified]

getUserType(user) ==
    IF user.age >= 65 THEN "Senior"
    ELSE IF user.age >= ADULT_AGE_THRESHOLD THEN "Adult"
    ELSE "Minor"

\* isValid validates the members again and turns an exception into false
isValid(user) ==
    /\ validateName(user.name).exception = ""
    /\ validateEmail(user.email).exception = ""
    /\ validateAge(user.age).exception = ""

getUserDescription(user) ==
    IF ~isValid(user) THEN <<"Invalid User">>
    ELSE <<getUserType(user), " User: ", user.name,
           IF user.isVerified THEN "Verified" ELSE "Unverified">>

\* a caller constructs a User
ConstructUser ==
    /\ userCall.n = 0
    /\ \E name \in UserNames, email \in UserEmails, age \in UserAges :
        LET made == User_User(name, email, age)
        IN  /\ users' = made.object
            /\ userCall' = UserCall(1, "User", <<name, email, age>>,
                                    made.exception, <<>>)
    /\ UNCHANGED otherThanUser

\* a caller sets the verification flag of the User
SetIsVerified ==
    /\ users # <<>>
    /\ userCall.n < MaxUserCalls
    /\ \E verified \in BOOLEAN :
        /\ users' = <<setIsVerified(users[1], verified)>>
        /\ userCall' = UserCall(userCall.n + 1, "setIsVerified", <<verified>>,
                                "", <<>>)
    /\ UNCHANGED otherThanUser

\* a caller asks whether the User is valid
IsValid ==
    /\ users # <<>>
    /\ userCall.n < MaxUserCalls
    /\ userCall' = UserCall(userCall.n + 1, "isValid", <<>>, "",
                            <<isValid(users[1])>>)
    /\ UNCHANGED users
    /\ UNCHANGED otherThanUser

\* a caller asks for the description of the User
GetUserDescription ==
    /\ users # <<>>
    /\ userCall.n < MaxUserCalls
    /\ userCall' = UserCall(userCall.n + 1, "getUserDescription", <<>>, "",
                            getUserDescription(users[1]))
    /\ UNCHANGED users
    /\ UNCHANGED otherThanUser

UserInit ==
    /\ UserNone
    /\ OrderUnused
    /\ ThreadsUnused
    /\ BankUnused
    /\ CartNew
    /\ CalcIdle
    /\ PasswordIdle

UserNext ==
    \/ ConstructUser
    \/ SetIsVerified
    \/ IsValid
    \/ GetUserDescription

UserSpec == UserInit /\ [][UserNext]_vars

\* ------------------------------------------------------------------------
\* What the User properties are stated with
\* ------------------------------------------------------------------------
LetterSet == {LowerCase[i] : i \in 1..26} \cup {UpperCase[i] : i \in 1..26}

DigitSet == {Digits[i] : i \in 1..10}

\* a string without the spaces at its two ends
RECURSIVE StripSpaces(_)
StripSpaces(s) ==
    IF s = <<>> THEN s
    ELSE IF Head(s) = " " THEN StripSpaces(Tail(s))
    ELSE IF s[Len(s)] = " " THEN StripSpaces(SubSeq(s, 1, Len(s) - 1))
    ELSE s

IsBlank(s) == \A i \in 1..Len(s) : s[i] = " "

\* the valid format of an email: one at sign after a local part of letters,
\* digits and . _ % + -, then a domain of letters, digits, . and -, then
\* the last dot and two letters or more
ValidEmailFormat(e) ==
    LET ats == {i \in 1..Len(e) : e[i] = "@"}
        dots == {i \in 1..Len(e) : e[i] = "."}
    IN  /\ Cardinality(ats) = 1
        /\ dots # {}
        /\ LET at == CHOOSE i \in ats : TRUE
               dot == CHOOSE i \in dots : \A j \in dots : j <= i
           IN  /\ at > 1
               /\ dot > at + 1
               /\ Len(e) >= dot + 2
               /\ \A i \in 1..(at - 1) :
                    e[i] \in LetterSet \cup DigitSet \cup
                             {".", "_", "%", "+", "-"}
               /\ \A i \in (at + 1)..(dot - 1) :
                    e[i] \in LetterSet \cup DigitSet \cup {".", "-"}
               /\ \A i \in (dot + 1)..Len(e) : e[i] \in LetterSet

InvalidUserInput(name, email, age) ==
    \/ IsBlank(name)
    \/ Len(StripSpaces(name)) < 2
    \/ ~ValidEmailFormat(StripSpaces(email))
    \/ age < 0
    \/ age > 150

\* r is s with its uppercase letters turned into lowercase letters
IsLowerCaseOf(r, s) ==
    /\ Len(r) = Len(s)
    /\ \A i \in 1..Len(s) :
        /\ toupper(r[i]) = toupper(s[i])
        /\ \A u \in 1..26 : r[i] # UpperCase[u]

\* the constructor threw whenever an input was invalid, and stored the
\* trimmed name and the trimmed, lower-cased email otherwise
ConstructorChecked ==
    userCall.op = "User" =>
        LET name == userCall.args[1]
            email == userCall.args[2]
            age == userCall.args[3]
        IN  IF InvalidUserInput(name, email, age)
            THEN /\ userCall.error # ""
                 /\ users = <<>>
            ELSE /\ userCall.error = ""
                 /\ Len(users) = 1
                 /\ users[1].name = StripSpaces(name)
                 /\ IsLowerCaseOf(users[1].email, StripSpaces(email))
                 /\ users[1].age = age

\* every User that exists is valid, its name and email trimmed and its
\* email in lowercase
UsersValid ==
    \A i \in 1..Len(users) :
        /\ isValid(users[i])
        /\ ~InvalidUserInput(users[i].name, users[i].email, users[i].age)
        /\ StripSpaces(users[i].name) = users[i].name
        /\ StripSpaces(users[i].email) = users[i].email
        /\ IsLowerCaseOf(users[i].email, users[i].email)

\* no call on a User that exists changes what the constructor stored
UserDataKept ==
    users # <<>> =>
        /\ Len(users') = Len(users)
        /\ users'[1].name = users[1].name
        /\ users'[1].email = users[1].email
        /\ users'[1].age = users[1].age

\* C23: the constructor of User throws ValidationError whenever an input is
\* invalid (name blank or shorter than 2 characters after trimming spaces,
\* email not in valid format, age outside 0..150), and no operation makes a
\* User invalid afterwards: every User that exists satisfies isValid() in
\* every reachable state, its name stored trimmed and its email stored
\* trimmed and lower-cased.
C23_UsersAlwaysValid ==
    /\ [](ConstructorChecked /\ UsersValid)
    /\ [][UserDataKept]_vars

\* a User constructed and then verified: still valid after two calls
C23_Witness ==
    /\ userCall.n = MaxUserCalls
    /\ userCall.op = "setIsVerified"
    /\ Len(users) = 1
    /\ users[1].isVerified
    /\ users[1].name = <<"A", "l">>
    /\ users[1].email = <<"a", ".", "b", "@", "b", "-", "c", ".", "d", ".",
                          "c", "o", "m">>
    /\ isValid(users[1])

\* a User constructed from a name and an email with spaces around them and
\* uppercase letters
C23_WitnessTrimmed ==
    /\ userCall.op = "User"
    /\ userCall.args[1] = <<" ", "A", "l", " ", " ">>
    /\ userCall.args[2] = <<" ", "A", ".", "b", "@", "B", "-", "c", ".", "d",
                            ".", "C", "o", "m", " ">>
    /\ Len(users) = 1
    /\ users[1].name = <<"A", "l">>
    /\ users[1].email = <<"a", ".", "b", "@", "b", "-", "c", ".", "d", ".",
                          "c", "o", "m">>

\* the constructor threw for an email that is not in valid format
C23_WitnessThrown ==
    /\ userCall.op = "User"
    /\ userCall.args[1] = <<"A", "l">>
    /\ userCall.args[3] = 25
    /\ userCall.error = "Email must be in valid format"
    /\ users = <<>>

\* the constructor threw for the age alone
C23_WitnessAge ==
    /\ userCall.op = "User"
    /\ userCall.args[3] = 151
    /\ userCall.error = "Age must be between 0 and 150"
    /\ users = <<>>

====
